---------------------------- MODULE Spec2Model ----------------------------
(***************************************************************************)
(* Model of calm-silence-cf07: the per-room signaling relay                *)
(* (src/worker/SignalingRoom.ts), the peer transport                       *)
(* (src/react-app/services/P2PService.ts) and the share flow of the React  *)
(* client (App.tsx, kept as src/unnamed/part_001).                         *)
(*                                                                         *)
(* The client is a React function component.  Its handlers are closures    *)
(* of the render in which they were created: a callback handed to a        *)
(* P2PService at construction reads the shareFlowStep, itemToShare and     *)
(* shareP2PServiceInstance of that render for as long as the service       *)
(* lives, while refs (shareP2PTimeoutIdRef.current) and the setters act    *)
(* on the live state.  The model keeps both: the live state in variables,  *)
(* the captured values in the service record (field cap).                  *)
(*                                                                         *)
(* setShareFlowMessage / setShowShareTargetInputFor are called by the      *)
(* handlers but their useState declarations are commented out              *)
(* (part_001:95).  They carry status text only; the model treats them as   *)
(* the status setters they were and follows the control flow around them.  *)
(***************************************************************************)
EXTENDS Integers, Sequences, FiniteSets, TLC

\* ------------------------------------------------------------------ bounds
MaxSockets == 3
MaxServices == 2
MaxManualServices == 4   \* manual connections started one after the other
MaxFrames == 3           \* frames a peer delivers on one connection
MaxFileLen == 3          \* bytes of the longest payload
MaxCycles == 2           \* times a received file is sent on again
MaxSignals == 3          \* frames one signaling socket delivers
MaxKeys == 3             \* metadata keys in the store when a sweep starts
ListLimit == 2           \* keys one list() call returns, standing for 1000
ChunkBytes == 2          \* the sender's chunk size, standing for CHUNK_SIZE

\* --------------------------------------------------------------- constants
TTL_PERIOD_DAYS == 7
P2P_CONNECT_TIMEOUT_MS == 15000
APP_MESSAGE_TIMEOUT_MS == 7000
P2P_RECEIVE_TIMEOUT_MS == 30000
CHUNK_SIZE == 65536

\* ------------------------------------------------------------ value spaces
Rooms == {"r1", "r2"}
Payloads == {"p1", "p2"}
SockIds == 1..MaxSockets
NoRoom == ""

VARIABLES
  \* --- SignalingRoom (one Durable Object per room id)
  sessions,        \* room -> sequence of server-side sockets (this.sessions)
  readyState,      \* server socket -> "NONE" | "OPEN" | "CLOSED"
  sockEvents,      \* server socket -> close/error events not yet dispatched
  wire,            \* frames the step just taken handed to send()
  lastSender,      \* the socket whose message that step relayed, or NoSocket
  lastResponse     \* HTTP status that step answered with, 0: not a request

relayVars == <<sessions, readyState, sockEvents, wire, lastSender, lastResponse>>

VARIABLES
  \* --- App (React state, refs) : the share flow
  shareFlowStep,            \* useState<UnifiedShareFlowStep>
  itemToShare,              \* File | FileMetadata | null
  shareTargetRoomIdInput,   \* text of the room id field
  shareP2PServiceInstance,  \* index of the P2PService held in state, 0: null
  shareP2PTimeoutIdRef,     \* shareP2PTimeoutIdRef.current
  overallAppMessage,        \* the notice shown, by type and subject
  appMessageTimeoutRef,     \* appMessageTimeoutRef.current
  p2pFileTransferProgress,  \* send/receive progress record, or Null
  p2pReceivingFileMeta,     \* active receive descriptor, or Null
  p2pReceivedFileChunks,    \* chunks received for it
  p2pReceiveTimeoutIdRef,   \* p2pReceiveTimeoutIdRef.current
  effectDep,                \* shareP2PServiceInstance seen by the committed effect
  \* --- browser
  timers,                   \* armed setTimeout timers
  microtasks,               \* services whose peer 'close' emission is queued
  \* --- P2PService instances
  svc,                      \* index -> service record
  p2pSend,                  \* the running performP2PSendAndUpdateState
  \* --- storage gateway and the fallback upload
  r2Upload,                 \* the running performR2Upload, by phase
  r2Bucket,                 \* object keys stored
  fileMetadataKV,           \* metadata keys stored
  cloudFiles,               \* useState<FileMetadata[]>, by filename
  \* --- history
  attemptDone               \* services whose attempt was driven to a final step

appVars == <<shareFlowStep, itemToShare, shareTargetRoomIdInput,
             shareP2PServiceInstance, shareP2PTimeoutIdRef, overallAppMessage,
             appMessageTimeoutRef, p2pFileTransferProgress, p2pReceivingFileMeta,
             p2pReceivedFileChunks, p2pReceiveTimeoutIdRef, effectDep>>
envVars == <<timers, microtasks, svc, p2pSend>>
storeVars == <<r2Upload, r2Bucket, fileMetadataKV, cloudFiles>>
shareVars == <<appVars, envVars, storeVars, attemptDone>>

VARIABLES
  \* --- App : the manual P2P section
  manualP2PService,          \* index of the P2PService held in state, 0: null
  manualP2PRoomIdInput,      \* text of the manual room id field
  manualP2PConnectionStatus, \* 'disconnected' | 'connecting' | 'connected' | 'failed'
  fileForManualP2P,          \* File | null
  manualSvc,                 \* index -> service record of the manual section
  manualMicrotasks,          \* manual services whose peer 'close' is queued
  manualSend,                \* performP2PSendAndUpdateState awaiting the file read
  rxPending,                 \* commonP2POnDataHandler awaiting blob.arrayBuffer()
  \* --- what the step just taken did
  emitted,                   \* frames it passed to service.send, in order
  downloaded,                \* the file it handed to the browser as a download
  logged,                    \* sender of the entry it added to the message log
  \* --- history
  arrived                    \* frames the peer delivered since its last file-meta

manualVars == <<manualP2PService, manualP2PRoomIdInput, manualP2PConnectionStatus,
                fileForManualP2P, manualSvc, manualMicrotasks, manualSend,
                rxPending, emitted, downloaded, logged, arrived>>

VARIABLE
  chunkRun                   \* a payload on its way through split and reassembly

clientVars == <<shareVars, manualVars, chunkRun>>

vars == <<relayVars, clientVars>>

\* ------------------------------------------------------------------ helpers
Range(s) == {s[i] : i \in 1..Len(s)}

\* Array.prototype.shift(): the oldest element goes, whichever it is.
ShiftSeq(s, drop) == IF s = <<>> THEN <<>> ELSE Tail(s)

RECURSIVE FilterSeq(_, _)
\* Array.prototype.filter(x => x # drop)
FilterSeq(s, drop) ==
  IF s = <<>> THEN <<>>
  ELSE IF Head(s) = drop THEN FilterSeq(Tail(s), drop)
       ELSE <<Head(s)>> \o FilterSeq(Tail(s), drop)


\* ============================================================ SignalingRoom

NoSocket == 0

\* The Durable Object a server socket was accepted by keeps it in its
\* sessions array; the socket's listeners close over that object.
RoomOf(s) ==
  IF \E r \in Rooms : s \in Range(sessions[r])
    THEN CHOOSE r \in Rooms : s \in Range(sessions[r])
    ELSE NoRoom

SessionsOf(room) == IF room \in Rooms THEN sessions[room] ELSE <<>>

RelayInit ==
  /\ sessions = [r \in Rooms |-> <<>>]
  /\ readyState = [s \in SockIds |-> "NONE"]
  /\ sockEvents = [s \in SockIds |-> <<>>]
  /\ wire = {}
  /\ lastSender = NoSocket
  /\ lastResponse = 0

\* The sockets the listener of `server` sends to: every other session of the
\* room whose readyState is OPEN (SignalingRoom.ts:42-43).
EchoingRecipients(room, server) ==
  {s \in Range(sessions[room]) : readyState[s] = "OPEN"}

Recipients(room, server) ==
  {s \in Range(sessions[room]) : s # server /\ readyState[s] = "OPEN"}

\* session.send(messageData): the event's data goes out untouched
\* (SignalingRoom.ts:40,45).
MangledFrame(session, messageData) ==
  [to |-> session, data |-> CHOOSE p \in Payloads : p # messageData]

RelayFrame(session, messageData) == [to |-> session, data |-> messageData]

\* GET /ws/signaling/:roomId (part_000:154-175) routed to the room's Durable
\* Object, then SignalingRoom.fetch (SignalingRoom.ts:26-80).
\* The status answered whatever the Upgrade header says.
StatusIgnoringUpgrade(roomId, upgradeHeader) ==
  IF roomId = NoRoom THEN 400 ELSE 101

\* The status the request is answered with: 400 from the route when the room
\* id is missing (part_000:156-159), 426 from the room when the Upgrade header
\* is absent or not 'websocket' (SignalingRoom.ts:27-30), else 101
\* (SignalingRoom.ts:76-79).
ResponseStatus(roomId, upgradeHeader) ==
  IF roomId = NoRoom THEN 400
  ELSE IF upgradeHeader # "websocket" THEN 426
  ELSE 101

Fetch(roomId, upgradeHeader) ==
  /\ IF ResponseStatus(roomId, upgradeHeader) # 101
       THEN UNCHANGED <<sessions, readyState>>
       ELSE \E server \in SockIds :
              /\ readyState[server] = "NONE"
              /\ \A s \in SockIds : s < server => readyState[s] # "NONE"
              /\ readyState' = [readyState EXCEPT ![server] = "OPEN"]
              /\ sessions' = [sessions EXCEPT ![roomId] = Append(@, server)]
  /\ lastResponse' = ResponseStatus(roomId, upgradeHeader)
  /\ wire' = {}
  /\ lastSender' = NoSocket
  /\ UNCHANGED <<sockEvents, clientVars>>

\* `a` stands before `b` in the room's sessions array.
Before(room, a, b) ==
  \E i, j \in 1..Len(sessions[room]) :
    i < j /\ sessions[room][i] = a /\ sessions[room][j] = b

\* The recipients reached when a throwing send() ends the forEach.
DeliveredUntilFailure(room, server, threw) ==
  {s \in Recipients(room, server) \ threw :
     \A t \in threw : ~Before(room, t, s)}

\* The recipients whose send() returned: the try/catch is inside the forEach
\* callback, so a throwing send() skips that one session only
\* (SignalingRoom.ts:42-52).
Delivered(room, server, threw) == Recipients(room, server) \ threw

\* server.addEventListener('message', ...) (SignalingRoom.ts:39-54).  `threw`
\* are the recipients whose send() throws; the error is caught and logged.
OnMessage(server, messageData, threw) ==
  /\ readyState[server] = "OPEN"
  /\ LET room == RoomOf(server)
         to == Recipients(room, server)
     IN /\ room \in Rooms
        /\ threw \subseteq to
        /\ wire' = {RelayFrame(s, messageData) :
                       s \in Delivered(room, server, threw)}
        /\ lastSender' = server
  /\ lastResponse' = 0
  /\ UNCHANGED <<sessions, readyState, sockEvents, clientVars>>

\* The client end goes away: the server socket leaves OPEN and a close event
\* (after an error event, when the connection broke) waits to be dispatched.
SocketCloses(server, broke) ==
  /\ readyState[server] = "OPEN"
  /\ readyState' = [readyState EXCEPT ![server] = "CLOSED"]
  /\ sockEvents' = [sockEvents EXCEPT ![server] =
                      IF broke THEN <<"error", "close">> ELSE <<"close">>]
  /\ wire' = {}
  /\ lastSender' = NoSocket
  /\ lastResponse' = 0
  /\ UNCHANGED <<sessions, clientVars>>

\* closeOrErrorHandler, run by the close and the error listener
\* (SignalingRoom.ts:56-72).
CloseOrErrorHandler(server) ==
  /\ sockEvents[server] # <<>>
  /\ sockEvents' = [sockEvents EXCEPT ![server] = Tail(@)]
  /\ sessions' = [r \in Rooms |-> FilterSeq(sessions[r], server)]
  /\ wire' = {}
  /\ lastSender' = NoSocket
  /\ lastResponse' = 0
  /\ UNCHANGED <<readyState, clientVars>>

RelayNext ==
  \/ \E r \in Rooms \cup {NoRoom}, h \in {"websocket", "none"} : Fetch(r, h)
  \/ \E s \in SockIds, p \in Payloads :
       \E f \in SUBSET Range(SessionsOf(RoomOf(s))) : OnMessage(s, p, f)
  \/ \E s \in SockIds, b \in BOOLEAN : SocketCloses(s, b)
  \/ \E s \in SockIds : CloseOrErrorHandler(s)


\* ================================================================ P2PService

ServiceIds == 1..MaxServices
LocalFiles == {"a.txt"}
StoredAtStart == {"b.bin"}

NoItem == [kind |-> "null", name |-> ""]
FileItem(n) == [kind |-> "File", name |-> n]
MetadataItem(n) == [kind |-> "FileMetadata", name |-> n]
\* `item instanceof File` (part_001:575, 638, 678, 800).
IsFileOrPointer(item) == item.kind # "null"

IsFile(item) == item.kind = "File"

\* setTimeout handles, by what they run and after how many milliseconds.
NoTimer == [kind |-> "none", svc |-> 0, tag |-> "", delay |-> 0]
ConnectTimer(k) ==
  [kind |-> "connect", svc |-> k, tag |-> "", delay |-> P2P_CONNECT_TIMEOUT_MS]
GraceTimer(k) == [kind |-> "grace", svc |-> k, tag |-> "", delay |-> 3000]
AppMessageTimer(tag, duration) ==
  [kind |-> "appmsg", svc |-> 0, tag |-> tag, delay |-> duration]

NoProgress == [type |-> "none", filename |-> "", progress |-> 0]
NoAppMessage == [type |-> "none", tag |-> ""]
NoUpload == [phase |-> "none", file |-> ""]
NoSend == [phase |-> "none", svc |-> 0, file |-> ""]

\* The payload of a file-meta frame: P2PFileMeta (part_001:22-27, 348).
NoMeta == [name |-> "", size |-> 0, isCompressed |-> FALSE, set |-> FALSE]

NoService ==
  [made |-> FALSE, roomId |-> "", initiator |-> FALSE,
   ws |-> "NONE", wsRef |-> FALSE, peer |-> "none", peerRef |-> FALSE,
   isDirectFileShare |-> FALSE, item |-> NoItem,
   cap |-> [shareFlowStep |-> "idle", shareP2PServiceInstance |-> 0,
            itemToShare |-> NoItem, p2pReceivingFileMeta |-> NoMeta,
            p2pReceivedFileChunks |-> <<>>],
   sent |-> <<>>,
   fired |-> [connect |-> 0, error |-> 0, close |-> 0, timeout |-> 0],
   failEdges |-> 0]

\* new P2PService({roomId, initiator, ...callbacks}) (P2PService.ts:20-32):
\* the constructor opens the signaling socket; the callbacks are the closures
\* of the render that ran executeShareAttempt (part_001:581-660).
NewService(roomId, item) ==
  [NoService EXCEPT
     !.made = TRUE, !.roomId = roomId, !.initiator = TRUE,
     !.ws = "CONNECTING", !.wsRef = TRUE,
     !.isDirectFileShare = IsFile(item), !.item = item,
     !.cap = [shareFlowStep |-> shareFlowStep,
              shareP2PServiceInstance |-> shareP2PServiceInstance,
              itemToShare |-> itemToShare,
              p2pReceivingFileMeta |-> p2pReceivingFileMeta,
              p2pReceivedFileChunks |-> p2pReceivedFileChunks]]

\* P2PService.destroy with the signaling socket left open.
AfterDestroyKeepingSocket(s) ==
  [s EXCEPT !.peer = IF s.peerRef /\ @ \in {"connecting", "connected"}
                       THEN "destroyed" ELSE @,
            !.peerRef = FALSE]

\* P2PService.destroy with the peer left as it is.
AfterDestroyLeavingPeer(s) ==
  [s EXCEPT !.peerRef = FALSE,
            !.ws = IF s.wsRef
                     THEN (CASE @ = "CONNECTING" -> "ABORTED"
                             [] @ = "OPEN" -> "CLOSED"
                             [] OTHER -> @)
                     ELSE @,
            !.wsRef = FALSE]

\* P2PService.destroy (P2PService.ts:139-149): peer.destroy() and peer = null,
\* ws.close() and ws = null.  close() on a socket still connecting fails the
\* connection (the browser then fires error and close); on an open one it
\* closes it.
AfterDestroy(s) ==
  [s EXCEPT !.peer = IF s.peerRef /\ @ \in {"connecting", "connected"}
                       THEN "destroyed" ELSE @,
            !.peerRef = FALSE,
            !.ws = IF s.wsRef
                     THEN (CASE @ = "CONNECTING" -> "ABORTED"
                             [] @ = "OPEN" -> "CLOSED"
                             [] OTHER -> @)
                     ELSE @,
            !.wsRef = FALSE]

\* peer.destroy() on a peer that is not yet destroyed makes it emit 'close'
\* once the running handler has returned (P2PService.ts:113-115, 141-143).
ClosePending(s) == s.peerRef /\ s.peer \in {"connecting", "connected"}

DestroyIn(table, k) ==
  IF k = 0 THEN table ELSE [table EXCEPT ![k] = AfterDestroy(@)]

QueueAfterDestroy(queue, table, k) ==
  IF k # 0 /\ ClosePending(table[k]) THEN Append(queue, k) ELSE queue

\* P2PService.send (P2PService.ts:123-130): handed to the peer only when it
\* is connected, otherwise a logged no-op.
SendAlways(s, data) == [s EXCEPT !.sent = Append(@, data)]

Send(s, data) ==
  IF s.peerRef /\ s.peer = "connected"
    THEN [s EXCEPT !.sent = Append(@, data)]
    ELSE s

\* A transport is live while its socket or its peer can still raise events.
Live(s) == s.ws \in {"CONNECTING", "OPEN", "ABORTED"}
           \/ s.peer \in {"connecting", "connected"}

\* ================================================ the chunked transfer protocol

\* Payload bytes.  Z stands for the header a deflate stream starts with.
Z == 0
Bytes == {1, 2}

\* A File of the sender's disk: name, extension, MIME type and content.
PlainFile == [name |-> "a.txt", ext |-> ".txt", type |-> "text/plain",
              bytes |-> <<2>>]
ZipFile == [name |-> "b.zip", ext |-> ".zip", type |-> "application/zip",
            bytes |-> [i \in 1..MaxFileLen |-> IF i % 2 = 1 THEN 1 ELSE 2]]
ManualFiles == {PlainFile, ZipFile}
NoFile == [name |-> "", ext |-> "", type |-> "", bytes |-> <<>>]

\* shouldCompress (part_001:29-38)
AlreadyCompressedTypes ==
  {"image/jpeg", "image/png", "image/gif", "video/mp4",
   "application/zip", "application/gzip", "application/pdf"}

\* The decision taken on the MIME type alone.
CompressByTypeOnly(file) == file.type \notin AlreadyCompressedTypes

ShouldCompress(file) ==
  IF file.ext \in {".gz", ".zip", ".rar"} THEN FALSE
  ELSE file.type \notin AlreadyCompressedTypes

\* pako.deflate / pako.inflate (part_001:336, 411).  A deflate stream is not
\* its input: it starts with a header and is never empty; inflate accepts
\* deflate streams only and throws on anything else.
Deflate(b) == <<Z>> \o b
CanInflate(b) == b # <<>> /\ Head(b) = Z
InflateKeepingHeader(b) == b
Inflate(b) == Tail(b)

Min(a, b) == IF a < b THEN a ELSE b

\* ArrayBuffer.prototype.slice(begin, end): the bytes begin .. end-1, the end
\* clamped to the length.
Slice(buf, begin, end) == SubSeq(buf, begin + 1, Min(end, Len(buf)))

\* The chunk loop with the last, partial chunk left out.
RECURSIVE WholeChunksOnly(_, _, _)
WholeChunksOnly(buf, offset, chunkSize) ==
  IF offset + chunkSize <= Len(buf)
    THEN <<Slice(buf, offset, offset + chunkSize)>>
           \o WholeChunksOnly(buf, offset + chunkSize, chunkSize)
    ELSE <<>>

\* The chunk loop of the sender (part_001:352-361): the chunks handed to
\* service.send, in order.
RECURSIVE ChunkLoop(_, _, _)
ChunkLoop(buf, offset, chunkSize) ==
  IF offset < Len(buf)
    THEN LET chunk == Slice(buf, offset, offset + chunkSize)
         IN <<chunk>> \o ChunkLoop(buf, offset + Len(chunk), chunkSize)
    ELSE <<>>

\* The same loop on a buffer known by its length only: the byteLength of
\* each chunk.
RECURSIVE ChunkLengths(_, _, _)
ChunkLengths(size, offset, chunkSize) ==
  IF offset < size
    THEN LET len == Min(offset + chunkSize, size) - offset
         IN <<len>> \o ChunkLengths(size, offset + len, chunkSize)
    ELSE <<>>

\* Math.round((part / whole) * 100) (part_001:358, 443); a division by zero
\* gives Infinity.
Infinity == 1000000
Percent(part, whole) ==
  IF whole = 0 THEN Infinity ELSE (200 * part + whole) \div (2 * whole)

\* The percent of each chunk taken by itself.
RECURSIVE ProgressOfChunkAlone(_, _, _)
ProgressOfChunkAlone(size, offset, chunkSize) ==
  IF offset < size
    THEN LET len == Min(offset + chunkSize, size) - offset
         IN <<Percent(len, size)>>
              \o ProgressOfChunkAlone(size, offset + len, chunkSize)
    ELSE <<>>

\* The progress the chunk loop passes to onProgress, one value after each
\* chunk: Math.round((offset / fileSizeForSending) * 100) with offset already
\* advanced past the chunk (part_001:356-359).
RECURSIVE SenderProgress(_, _, _)
SenderProgress(size, offset, chunkSize) ==
  IF offset < size
    THEN LET len == Min(offset + chunkSize, size) - offset
         IN <<Percent(offset + len, size)>>
              \o SenderProgress(size, offset + len, chunkSize)
    ELSE <<>>

\* Frames of the data channel: JSON text frames and binary chunks.
MetaFrame(name, size, isCompressed) ==
  [type |-> "file-meta", name |-> name, size |-> size,
   isCompressed |-> isCompressed, bytes |-> <<>>]
EndFrame(name) ==
  [type |-> "file-end", name |-> name, size |-> 0, isCompressed |-> FALSE,
   bytes |-> <<>>]
ChunkFrame(bytes) ==
  [type |-> "chunk", name |-> "", size |-> 0, isCompressed |-> FALSE,
   bytes |-> bytes]
TextFrame ==
  [type |-> "text", name |-> "", size |-> 0, isCompressed |-> FALSE,
   bytes |-> <<>>]
PointerFrame(name) ==
  [type |-> "r2-file-share", name |-> name, size |-> 0, isCompressed |-> FALSE,
   bytes |-> <<>>]
\* A string frame JSON.parse throws on (part_001:390, 434-436).
NotJsonFrame ==
  [type |-> "not-json", name |-> "", size |-> 0, isCompressed |-> FALSE,
   bytes |-> <<>>]
\* A JSON frame whose type no branch names (part_001:431-433).
UnknownFrame ==
  [type |-> "unknown", name |-> "", size |-> 0, isCompressed |-> FALSE,
   bytes |-> <<>>]

MetaOf(frame) == [name |-> frame.name, size |-> frame.size,
                  isCompressed |-> frame.isCompressed, set |-> TRUE]

\* performP2PSendAndUpdateState past the file read (part_001:333-362): the
\* data to send, and every frame handed to service.send, in order.
DataForSending(file) ==
  IF ShouldCompress(file) THEN Deflate(file.bytes) ELSE file.bytes

\* The sender's frames with the closing file-end left out.
FramesWithoutEnd(file, chunkSize) ==
  LET data == DataForSending(file)
      chunks == ChunkLoop(data, 0, chunkSize)
  IN <<MetaFrame(file.name, Len(data), ShouldCompress(file))>>
       \o [i \in 1..Len(chunks) |-> ChunkFrame(chunks[i])]

SenderFrames(file, chunkSize) ==
  LET data == DataForSending(file)
      chunks == ChunkLoop(data, 0, chunkSize)
  IN <<MetaFrame(file.name, Len(data), ShouldCompress(file))>>
       \o [i \in 1..Len(chunks) |-> ChunkFrame(chunks[i])]
       \o <<EndFrame(file.name)>>

\* [...p2pReceivedFileChunks, data] (part_001:440)
AppendChunk(chunks, data) == Append(chunks, data)

\* new Blob(chunks) (part_001:404): the chunks' bytes, in list order.
RECURSIVE Blob(_)
Blob(chunks) ==
  IF chunks = <<>> THEN <<>> ELSE Head(chunks) \o Blob(Tail(chunks))

\* currentChunks.reduce((sum, chunk) => sum + chunk.byteLength, 0)
ByteTotal(chunks) == Len(Blob(chunks))

\* ======================================================== App: the share flow

NonTerminalP2P == {"p2p_attempt", "p2p_r2_pointer_attempt",
                   "p2p_connected_for_action", "p2p_direct_transfer",
                   "p2p_r2_pointer_send", "p2p_r2_pointer_sent"}
FinalSteps == {"share_complete_success", "share_failed",
               "p2p_direct_transfer_failed_offer_r2"}

Trim(s) == IF s = " " THEN "" ELSE s
RoomInputs == {"", " ", "r1"}

\* part_001:638, 650, 666
SwappedFailureStep(isDirectFileShare) ==
  IF isDirectFileShare THEN "share_failed"
                       ELSE "p2p_direct_transfer_failed_offer_r2"

FailureStep(isDirectFileShare) ==
  IF isDirectFileShare THEN "p2p_direct_transfer_failed_offer_r2"
                       ELSE "share_failed"

\* setAppMessageFx (part_001:100-110): the pending auto-clear timer is
\* cancelled; a new one is armed unless the notice is an error or duration 0.
AppMessageArms(type, duration) == duration > 0 /\ type # "error"

TimersAfterAppMessage(tm, tag, type, duration) ==
  IF AppMessageArms(type, duration)
    THEN (tm \ {appMessageTimeoutRef}) \cup {AppMessageTimer(tag, duration)}
    ELSE tm \ {appMessageTimeoutRef}

RefAfterAppMessage(tag, type, duration) ==
  IF AppMessageArms(type, duration) THEN AppMessageTimer(tag, duration)
                                    ELSE appMessageTimeoutRef

\* The browser takes its next task - an input event, a network event, a
\* timer - once the microtasks of the previous one have run and React has
\* committed the render that one asked for, effect cleanups included: the
\* instance in state changes in click handlers only (part_001:520, 661), and
\* the render of a click is committed before the browser goes on.
TaskCanRun == microtasks = <<>> /\ effectDep = shareP2PServiceInstance

UserCanAct == TaskCanRun

\* part_001:768 : the block with the room field, Start Share and Cancel.
ShareTargetSectionShown ==
  /\ itemToShare # NoItem
  /\ shareFlowStep \in {"awaiting_room_id", "idle",
                        "p2p_direct_transfer_failed_offer_r2", "share_failed"}

ShareInit ==
  /\ shareFlowStep = "idle"
  /\ itemToShare = NoItem
  /\ shareTargetRoomIdInput = ""
  /\ shareP2PServiceInstance = 0
  /\ shareP2PTimeoutIdRef = NoTimer
  /\ overallAppMessage = NoAppMessage
  /\ appMessageTimeoutRef = NoTimer
  /\ p2pFileTransferProgress = NoProgress
  /\ p2pReceivingFileMeta = NoMeta
  /\ p2pReceivedFileChunks = <<>>
  /\ p2pReceiveTimeoutIdRef = NoTimer
  /\ effectDep = 0
  /\ timers = {}
  /\ microtasks = <<>>
  /\ svc = [k \in ServiceIds |-> NoService]
  /\ p2pSend = NoSend
  /\ r2Upload = NoUpload
  /\ r2Bucket = StoredAtStart
  /\ fileMetadataKV = StoredAtStart
  /\ cloudFiles = StoredAtStart
  /\ attemptDone = {}

\* initiateShareProcess (part_001:504-511), reached from the local file
\* picker (759-764, 497-502) or a cloud file's Share button (747).
InitiateShareProcess(item) ==
  /\ UserCanAct
  /\ shareFlowStep = "idle"
  /\ IF IsFile(item) THEN item.name \in LocalFiles /\ itemToShare = NoItem
                     ELSE item.name \in cloudFiles
  /\ itemToShare' = item
  /\ shareTargetRoomIdInput' = ""
  /\ shareFlowStep' = "awaiting_room_id"
  /\ p2pFileTransferProgress' = NoProgress
  /\ overallAppMessage' = [type |-> "info", tag |-> ""]
  /\ timers' = TimersAfterAppMessage(timers, "", "info", 0)
  /\ appMessageTimeoutRef' = RefAfterAppMessage("", "info", 0)
  /\ UNCHANGED <<relayVars, manualVars, chunkRun, shareP2PServiceInstance, shareP2PTimeoutIdRef,
                 p2pReceivingFileMeta, p2pReceivedFileChunks,
                 p2pReceiveTimeoutIdRef, effectDep, microtasks, svc, p2pSend,
                 storeVars, attemptDone>>

\* onChange of the room id field (part_001:771-777).
SetShareTargetRoomIdInput(value) ==
  /\ UserCanAct
  /\ ShareTargetSectionShown
  /\ shareFlowStep # "p2p_direct_transfer_failed_offer_r2"
  /\ value # shareTargetRoomIdInput
  /\ shareTargetRoomIdInput' = value
  /\ UNCHANGED <<relayVars, manualVars, chunkRun, shareFlowStep, itemToShare, shareP2PServiceInstance,
                 shareP2PTimeoutIdRef, overallAppMessage, appMessageTimeoutRef,
                 p2pFileTransferProgress, p2pReceivingFileMeta,
                 p2pReceivedFileChunks, p2pReceiveTimeoutIdRef, effectDep,
                 envVars, storeVars, attemptDone>>

\* executeShareAttempt up to the service it builds (part_001:567-582, 661-663),
\* run by the Start Share button (part_001:778).
ExecuteShareAttempt ==
  /\ UserCanAct
  /\ ShareTargetSectionShown
  /\ Trim(shareTargetRoomIdInput) # ""
  /\ \E k \in ServiceIds :
       /\ ~svc[k].made
       /\ \A j \in ServiceIds : j < k => svc[j].made
       /\ LET item == itemToShare
              old == shareP2PServiceInstance
          IN /\ svc' = [DestroyIn(svc, old) EXCEPT
                          ![k] = NewService(shareTargetRoomIdInput, item)]
             /\ microtasks' = QueueAfterDestroy(microtasks, svc, old)
             /\ shareFlowStep' = IF IsFile(item) THEN "p2p_attempt"
                                                 ELSE "p2p_r2_pointer_attempt"
             \* resetP2PReceiveStates(undefined, 'share_flow_receiver')
             /\ p2pReceiveTimeoutIdRef' = NoTimer
             /\ p2pReceivingFileMeta' = NoMeta
             /\ p2pReceivedFileChunks' = <<>>
             /\ p2pFileTransferProgress' = NoProgress
             /\ shareP2PServiceInstance' = k
             /\ shareP2PTimeoutIdRef' = ConnectTimer(k)
             /\ timers' = (timers \ {shareP2PTimeoutIdRef, p2pReceiveTimeoutIdRef})
                            \cup {ConnectTimer(k)}
  /\ UNCHANGED <<relayVars, manualVars, chunkRun, itemToShare, shareTargetRoomIdInput, overallAppMessage,
                 appMessageTimeoutRef, effectDep, p2pSend, storeVars,
                 attemptDone>>

\* The cleanup of useEffect(..., [shareP2PServiceInstance]) (part_001:113-120),
\* run when a committed render changed the dependency: it destroys the
\* instance of the render it belongs to and clears whatever timers the three
\* refs name at that moment.
EffectCleanup ==
  /\ microtasks = <<>>
  /\ effectDep # shareP2PServiceInstance
  /\ svc' = DestroyIn(svc, effectDep)
  /\ microtasks' = QueueAfterDestroy(microtasks, svc, effectDep)
  /\ timers' = timers \ {shareP2PTimeoutIdRef, p2pReceiveTimeoutIdRef,
                         appMessageTimeoutRef}
  /\ effectDep' = shareP2PServiceInstance
  /\ UNCHANGED <<relayVars, manualVars, chunkRun, shareFlowStep, itemToShare, shareTargetRoomIdInput,
                 shareP2PServiceInstance, shareP2PTimeoutIdRef,
                 overallAppMessage, appMessageTimeoutRef,
                 p2pFileTransferProgress, p2pReceivingFileMeta,
                 p2pReceivedFileChunks, p2pReceiveTimeoutIdRef, p2pSend,
                 storeVars, attemptDone>>

\* cancelShareProcess (part_001:513-528), from Cancel Current Share (781) or
\* "No, Cancel Share" of the fallback offer (800-804).
CancelShareProcess ==
  /\ UserCanAct
  /\ \/ /\ ShareTargetSectionShown
        /\ shareFlowStep \notin {"p2p_direct_transfer", "r2_fallback_upload"}
     \/ /\ shareFlowStep = "p2p_direct_transfer_failed_offer_r2"
        /\ IsFile(itemToShare)
  /\ itemToShare' = NoItem
  /\ shareTargetRoomIdInput' = ""
  /\ shareFlowStep' = "idle"
  /\ svc' = DestroyIn(svc, shareP2PServiceInstance)
  /\ microtasks' = QueueAfterDestroy(microtasks, svc, shareP2PServiceInstance)
  /\ shareP2PServiceInstance' = 0
  /\ timers' = timers \ {shareP2PTimeoutIdRef}
  /\ shareP2PTimeoutIdRef' = NoTimer
  /\ p2pFileTransferProgress' = NoProgress
  /\ UNCHANGED <<relayVars, manualVars, chunkRun, overallAppMessage, appMessageTimeoutRef, p2pReceivingFileMeta,
                 p2pReceivedFileChunks, p2pReceiveTimeoutIdRef, effectDep,
                 p2pSend, storeVars, attemptDone>>

\* ---- the callbacks executeShareAttempt hands to its P2PService.  Each reads
\* ---- shareFlowStep, shareP2PServiceInstance and itemToShare as captured in
\* ---- svc[k].cap, and item, isDirectFileShare and service as its own.

\* ws.onopen -> initializePeer (P2PService.ts:33-37, 66-81).
WsOpens(k) ==
  /\ TaskCanRun
  /\ svc[k].ws = "CONNECTING"
  /\ svc' = [svc EXCEPT ![k].ws = "OPEN",
                        ![k].peer = "connecting",
                        ![k].peerRef = TRUE]
  /\ UNCHANGED <<relayVars, manualVars, chunkRun, appVars, timers, microtasks, p2pSend, storeVars, attemptDone>>

\* ws.onclose (P2PService.ts:60-63): logged, nothing else.
WsCloses(k) ==
  /\ TaskCanRun
  /\ svc[k].ws = "OPEN"
  /\ svc' = [svc EXCEPT ![k].ws = "CLOSED"]
  /\ UNCHANGED <<relayVars, manualVars, chunkRun, appVars, timers, microtasks, p2pSend, storeVars, attemptDone>>

\* peer 'connect' (P2PService.ts:94-96) -> onConnect (part_001:584-633).
ShareOnConnect(k) ==
  /\ TaskCanRun
  /\ svc[k].peer = "connecting"
  /\ LET s == [svc[k] EXCEPT !.peer = "connected", !.fired.connect = @ + 1]
         proceeds == s.cap.shareFlowStep \in {"p2p_attempt", "p2p_r2_pointer_attempt"}
         tm == timers \ {shareP2PTimeoutIdRef}
     IN /\ shareP2PTimeoutIdRef' = NoTimer
        /\ IF ~proceeds
             THEN /\ svc' = [svc EXCEPT ![k] = s]
                  /\ timers' = tm
                  /\ UNCHANGED <<shareFlowStep, overallAppMessage,
                                 appMessageTimeoutRef, p2pFileTransferProgress,
                                 p2pSend>>
             ELSE IF s.isDirectFileShare
             THEN \* performP2PSendAndUpdateState runs to its first await
                  /\ svc' = [svc EXCEPT ![k] = s]
                  /\ timers' = tm
                  /\ shareFlowStep' = "p2p_direct_transfer"
                  /\ p2pFileTransferProgress' =
                       [type |-> "send", filename |-> s.item.name, progress |-> 0]
                  /\ p2pSend' = [phase |-> "reading", svc |-> k,
                                 file |-> s.item.name]
                  /\ UNCHANGED <<overallAppMessage, appMessageTimeoutRef>>
             ELSE /\ svc' = [svc EXCEPT ![k] =
                               Send(s, [type |-> "r2-file-share",
                                        payload |-> s.item.name])]
                  /\ shareFlowStep' = "p2p_r2_pointer_sent"
                  /\ overallAppMessage' = [type |-> "success", tag |-> "pointer_sent"]
                  /\ timers' = TimersAfterAppMessage(tm, "pointer_sent", "success",
                                                     APP_MESSAGE_TIMEOUT_MS)
                                 \cup {GraceTimer(k)}
                  /\ appMessageTimeoutRef' =
                       RefAfterAppMessage("pointer_sent", "success",
                                          APP_MESSAGE_TIMEOUT_MS)
                  /\ UNCHANGED <<p2pFileTransferProgress, p2pSend>>
  /\ UNCHANGED <<relayVars, manualVars, chunkRun, itemToShare, shareTargetRoomIdInput, shareP2PServiceInstance,
                 p2pReceivingFileMeta, p2pReceivedFileChunks,
                 p2pReceiveTimeoutIdRef, effectDep, microtasks, storeVars,
                 attemptDone>>

\* ws.onerror (P2PService.ts:55-58) or peer 'error' (P2PService.ts:108-111)
\* -> onError (part_001:635-646).  A peer that errors destroys itself and
\* emits 'close' after 'error'.
ShareOnError(k, cause) ==
  /\ TaskCanRun
  /\ cause = "ws" => svc[k].ws \in {"CONNECTING", "OPEN", "ABORTED"}
  /\ cause = "peer" => svc[k].peer \in {"connecting", "connected"}
  /\ LET s0 == svc[k]
         s1 == IF cause = "ws" THEN [s0 EXCEPT !.ws = "CLOSED"]
                               ELSE [s0 EXCEPT !.peer = "destroyed"]
     IN /\ svc' = [svc EXCEPT ![k] =
                     [AfterDestroy(s1) EXCEPT !.fired.error = @ + 1,
                                              !.failEdges = @ + 1]]
        /\ microtasks' = IF cause = "peer" \/ ClosePending(s1)
                           THEN <<k>> ELSE <<>>
        /\ shareFlowStep' = FailureStep(s0.isDirectFileShare)
        /\ shareP2PServiceInstance' =
             IF s0.cap.shareP2PServiceInstance = k THEN 0
                                                   ELSE shareP2PServiceInstance
  /\ timers' = TimersAfterAppMessage(timers \ {shareP2PTimeoutIdRef},
                                     "p2p_error", "error", 0)
  /\ shareP2PTimeoutIdRef' = NoTimer
  /\ overallAppMessage' = [type |-> "error", tag |-> "p2p_error"]
  /\ p2pFileTransferProgress' = NoProgress
  /\ attemptDone' = attemptDone \cup {k}
  /\ UNCHANGED <<relayVars, manualVars, chunkRun, itemToShare, shareTargetRoomIdInput, appMessageTimeoutRef,
                 p2pReceivingFileMeta, p2pReceivedFileChunks,
                 p2pReceiveTimeoutIdRef, effectDep, p2pSend, storeVars>>

\* part_001:651 : the steps in which onClose treats the close as a failure.
CloseFails(k) ==
  svc[k].cap.shareFlowStep \in
    {"p2p_attempt", "p2p_connected_for_action", "p2p_direct_transfer",
     "p2p_r2_pointer_attempt", "p2p_r2_pointer_send"}

\* onClose (part_001:647-659), on everything but svc and microtasks.
OnCloseCb(k) ==
  /\ shareP2PTimeoutIdRef' = NoTimer
  /\ IF CloseFails(k)
       THEN /\ timers' = TimersAfterAppMessage(timers \ {shareP2PTimeoutIdRef},
                                               "p2p_closed", "error", 0)
            /\ overallAppMessage' = [type |-> "error", tag |-> "p2p_closed"]
            /\ shareFlowStep' = FailureStep(svc[k].isDirectFileShare)
            /\ attemptDone' = attemptDone \cup {k}
       ELSE /\ timers' = timers \ {shareP2PTimeoutIdRef}
            /\ UNCHANGED <<overallAppMessage, shareFlowStep, attemptDone>>
  /\ shareP2PServiceInstance' =
       IF svc[k].cap.shareP2PServiceInstance = k THEN 0
                                                 ELSE shareP2PServiceInstance
  /\ p2pFileTransferProgress' = NoProgress
  /\ UNCHANGED <<relayVars, manualVars, chunkRun, itemToShare, shareTargetRoomIdInput, appMessageTimeoutRef,
                 p2pReceivingFileMeta, p2pReceivedFileChunks,
                 p2pReceiveTimeoutIdRef, effectDep, p2pSend, storeVars>>

ClosedOnce(s, fails) ==
  [s EXCEPT !.fired.close = @ + 1,
            !.failEdges = IF fails THEN @ + 1 ELSE @]

\* peer 'close' raised by the remote side or the network
\* (P2PService.ts:113-115) -> onClose.
PeerCloses(k) ==
  /\ TaskCanRun
  /\ svc[k].peer \in {"connecting", "connected"}
  /\ svc' = [svc EXCEPT ![k] =
               ClosedOnce([svc[k] EXCEPT !.peer = "destroyed"], CloseFails(k))]
  /\ UNCHANGED microtasks
  /\ OnCloseCb(k)

\* peer 'close' emitted for a peer.destroy() made by a handler that returned.
DestroyedPeerEmitsClose ==
  /\ microtasks # <<>>
  /\ LET k == Head(microtasks)
     IN /\ svc' = [svc EXCEPT ![k] = ClosedOnce(svc[k], CloseFails(k))]
        /\ microtasks' = Tail(microtasks)
        /\ OnCloseCb(k)

\* A setTimeout callback runs: the connect deadline (part_001:663-674), the
\* grace delay after a pointer was sent (part_001:626-631), or the auto-clear
\* of a notice (part_001:106-108).
TimerFires(t) ==
  /\ TaskCanRun
  /\ t \in timers
  /\ LET k == t.svc
         s == svc[k]
         expired == /\ t.kind = "connect"
                    /\ s.cap.shareP2PServiceInstance = k
                    /\ s.cap.shareFlowStep \in {"p2p_attempt",
                           "p2p_connected_for_action", "p2p_r2_pointer_attempt"}
         graceHolds == t.kind = "grace" /\ s.cap.shareP2PServiceInstance = k
         destroys == expired \/ graceHolds
         counted == IF t.kind = "connect"
                      THEN [svc EXCEPT ![k].fired.timeout = @ + 1,
                                       ![k].failEdges = IF expired THEN @ + 1 ELSE @]
                      ELSE svc
     IN /\ svc' = IF destroys THEN DestroyIn(counted, k) ELSE counted
        /\ microtasks' = IF destroys THEN QueueAfterDestroy(microtasks, svc, k)
                                     ELSE microtasks
        /\ shareFlowStep' =
             IF expired THEN FailureStep(IsFile(s.cap.itemToShare))
             ELSE IF graceHolds /\ s.cap.shareFlowStep = "p2p_r2_pointer_sent"
               THEN "share_complete_success"
             ELSE shareFlowStep
        /\ attemptDone' = IF expired \/ (graceHolds /\ s.cap.shareFlowStep =
                                                         "p2p_r2_pointer_sent")
                            THEN attemptDone \cup {k} ELSE attemptDone
        /\ overallAppMessage' =
             IF expired THEN [type |-> "error", tag |-> "p2p_timeout"]
             ELSE IF t.kind = "appmsg" /\ overallAppMessage.tag = t.tag
               THEN NoAppMessage
             ELSE overallAppMessage
        /\ timers' = IF expired
                       THEN TimersAfterAppMessage(timers \ {t}, "p2p_timeout",
                                                  "error", 0)
                       ELSE timers \ {t}
        /\ shareP2PTimeoutIdRef' = IF t.kind = "connect" THEN NoTimer
                                                         ELSE shareP2PTimeoutIdRef
  /\ UNCHANGED <<relayVars, manualVars, chunkRun, itemToShare, shareTargetRoomIdInput, shareP2PServiceInstance,
                 appMessageTimeoutRef, p2pFileTransferProgress,
                 p2pReceivingFileMeta, p2pReceivedFileChunks,
                 p2pReceiveTimeoutIdRef, effectDep, p2pSend, storeVars>>

\* handleShareR2Fallback up to its await (part_001:677-688), from
\* "Yes, Upload to Cloud" (part_001:800-803); performR2Upload starts
\* (part_001:164-177).  The button is rendered for a File only, and the
\* handler tests the same itemToShare again (678-681).
HandleShareR2Fallback ==
  /\ UserCanAct
  /\ shareFlowStep = "p2p_direct_transfer_failed_offer_r2"
  /\ IsFile(itemToShare)
  /\ r2Upload = NoUpload
  /\ IF ~IsFile(itemToShare)
       THEN /\ overallAppMessage' = [type |-> "error", tag |-> "no_local_file"]
            /\ timers' = TimersAfterAppMessage(timers, "no_local_file", "error", 0)
            /\ shareFlowStep' = "idle"
            /\ UNCHANGED <<p2pFileTransferProgress, r2Upload>>
       ELSE /\ shareFlowStep' = "r2_fallback_upload"
            /\ p2pFileTransferProgress' = NoProgress
            /\ r2Upload' = [phase |-> "initiate", file |-> itemToShare.name]
            /\ UNCHANGED <<overallAppMessage, timers>>
  /\ UNCHANGED <<relayVars, manualVars, chunkRun, itemToShare, shareTargetRoomIdInput, shareP2PServiceInstance,
                 shareP2PTimeoutIdRef, appMessageTimeoutRef,
                 p2pReceivingFileMeta, p2pReceivedFileChunks,
                 p2pReceiveTimeoutIdRef, effectDep, microtasks, svc, p2pSend,
                 r2Bucket, fileMetadataKV, cloudFiles, attemptDone>>

\* The request of the running phase is answered and performR2Upload goes on
\* to the next one (part_001:177-223; worker part_000:17-67): initiate-upload,
\* the PUT to the presigned URL, finalize-upload.  A request that fails makes
\* performR2Upload throw (part_001:230-235).
UploadSkippingFinalize(phase) ==
  CASE phase = "initiate" -> "put"
    [] phase = "put" -> "refresh"
    [] phase = "finalize" -> "refresh"

NextUploadPhase(phase) ==
  CASE phase = "initiate" -> "put"
    [] phase = "put" -> "finalize"
    [] phase = "finalize" -> "refresh"

UploadRequestReturns(ok) ==
  /\ TaskCanRun
  /\ r2Upload.phase \in {"initiate", "put", "finalize"}
  /\ IF ok
       THEN /\ r2Upload' = [r2Upload EXCEPT !.phase = NextUploadPhase(@)]
            /\ r2Bucket' = IF r2Upload.phase = "put"
                             THEN r2Bucket \cup {r2Upload.file} ELSE r2Bucket
            /\ fileMetadataKV' = IF r2Upload.phase = "finalize"
                                   THEN fileMetadataKV \cup {r2Upload.file}
                                   ELSE fileMetadataKV
            /\ UNCHANGED <<shareFlowStep, overallAppMessage, timers>>
       ELSE \* catch / finally of handleShareR2Fallback (part_001:693-699)
            /\ r2Upload' = NoUpload
            /\ overallAppMessage' = [type |-> "error", tag |-> "fallback_failed"]
            /\ timers' = TimersAfterAppMessage(timers, "fallback_failed", "error", 0)
            /\ shareFlowStep' = "idle"
            /\ UNCHANGED <<r2Bucket, fileMetadataKV>>
  /\ UNCHANGED <<relayVars, manualVars, chunkRun, itemToShare, shareTargetRoomIdInput, shareP2PServiceInstance,
                 shareP2PTimeoutIdRef, appMessageTimeoutRef,
                 p2pFileTransferProgress, p2pReceivingFileMeta,
                 p2pReceivedFileChunks, p2pReceiveTimeoutIdRef, effectDep,
                 microtasks, svc, p2pSend, cloudFiles, attemptDone>>

\* await fetchR2Files() (part_001:223, 128-152) returns - a failed listing is
\* caught there - and handleShareR2Fallback finishes (part_001:689-692, 698).
UploadFinishes(listed) ==
  /\ TaskCanRun
  /\ r2Upload.phase = "refresh"
  /\ r2Upload' = NoUpload
  /\ cloudFiles' = IF listed THEN fileMetadataKV ELSE cloudFiles
  /\ overallAppMessage' = [type |-> "success", tag |-> "fallback_uploaded"]
  /\ timers' = TimersAfterAppMessage(timers, "fallback_uploaded", "success",
                                     APP_MESSAGE_TIMEOUT_MS)
  /\ appMessageTimeoutRef' = RefAfterAppMessage("fallback_uploaded", "success",
                                                APP_MESSAGE_TIMEOUT_MS)
  /\ shareTargetRoomIdInput' = ""
  /\ shareFlowStep' = "idle"
  /\ UNCHANGED <<relayVars, manualVars, chunkRun, itemToShare, shareP2PServiceInstance, shareP2PTimeoutIdRef,
                 p2pFileTransferProgress, p2pReceivingFileMeta,
                 p2pReceivedFileChunks, p2pReceiveTimeoutIdRef, effectDep,
                 microtasks, svc, p2pSend, r2Bucket, fileMetadataKV,
                 attemptDone>>

\* ================================================= App: the manual P2P section

ManualServiceIds == 1..MaxManualServices
NoDownload == [name |-> "", bytes |-> <<>>, saved |-> FALSE]
NoArrival == [meta |-> NoMeta, chunks |-> <<>>, frames |-> 0]
NoManualSend == [phase |-> "none", svc |-> 0, file |-> NoFile]
NoRxPending == [waiting |-> FALSE, meta |-> NoMeta, blob |-> <<>>]

\* The frames a peer may deliver: those of the sender's own protocol for the
\* files at hand, each file small enough for one chunk, a chat line, and
\* the frames no sender of this program produces.
RxFrames ==
  UNION {Range(SenderFrames(f, MaxFileLen)) : f \in ManualFiles}
    \cup {TextFrame, NotJsonFrame, UnknownFrame}

ReceiveTimer(tag, delay) ==
  [kind |-> "receive", svc |-> 0, tag |-> tag, delay |-> delay]

\* The service records of the manual section.  cap holds what the callbacks
\* built by startManualP2P (part_001:468-491) read from the render of the
\* click: manualP2PService, p2pReceivingFileMeta and p2pReceivedFileChunks
\* (commonP2POnDataHandler is the one of that render).  sent holds what the
\* step just taken handed to peer.send.
NoManualService ==
  [made |-> FALSE,
   ws |-> "NONE", wsRef |-> FALSE, peer |-> "none", peerRef |-> FALSE,
   cap |-> [manualP2PService |-> 0, p2pReceivingFileMeta |-> NoMeta,
            p2pReceivedFileChunks |-> <<>>],
   sent |-> <<>>,
   fired |-> [connect |-> 0, error |-> 0, close |-> 0]]

\* new P2PService({roomId, initiator, ...}) (part_001:468; P2PService.ts:20-32).
\* The role is handed on to simple-peer (P2PService.ts:72) and decides which
\* side makes the offer; the service itself behaves alike in both roles.
NewManualService(isInitiator) ==
  [NoManualService EXCEPT
     !.made = TRUE,
     !.ws = "CONNECTING", !.wsRef = TRUE,
     !.cap = [manualP2PService |-> manualP2PService,
              p2pReceivingFileMeta |-> p2pReceivingFileMeta,
              p2pReceivedFileChunks |-> p2pReceivedFileChunks]]

\* A service nothing refers to any more and that can raise no further event:
\* replaced in state, socket and peer closed, no 'close' queued, no send
\* waiting to use it.  The garbage collector frees it.
Collectable(k) ==
  /\ manualSvc[k].made
  /\ k # manualP2PService
  /\ manualSvc[k].ws \notin {"CONNECTING", "OPEN", "ABORTED"}
  /\ manualSvc[k].peer \notin {"connecting", "connected"}
  /\ k \notin Range(manualMicrotasks)
  /\ k # manualSend.svc

Collected == [NoManualService EXCEPT !.made = TRUE]

\* The services as a step finds them: nothing handed to a peer yet in this
\* step, the collectable ones freed.
Quiet(table) ==
  [k \in DOMAIN table |->
     IF Collectable(k) THEN Collected ELSE [table[k] EXCEPT !.sent = <<>>]]

\* service.send(frame) for each frame of a sequence, in order.
RECURSIVE SendAll(_, _)
SendAll(s, frames) ==
  IF frames = <<>> THEN s ELSE SendAll(Send(s, Head(frames)), Tail(frames))

\* The notice, its auto-clear timer and the timer set, as one value that
\* successive setAppMessageFx calls of a handler act on (part_001:99-110).
\* A handle whose timer is cleared or has run is as good as null: all the
\* code does with it is clearTimeout.
Ui == [timers |-> timers, ref |-> appMessageTimeoutRef, msg |-> overallAppMessage]

SetAppMessageFx(ui, tag, type, duration) ==
  [timers |-> IF AppMessageArms(type, duration)
                THEN (ui.timers \ {ui.ref}) \cup {AppMessageTimer(tag, duration)}
                ELSE ui.timers \ {ui.ref},
   ref |-> IF AppMessageArms(type, duration) THEN AppMessageTimer(tag, duration)
                                             ELSE NoTimer,
   msg |-> [type |-> type, tag |-> tag]]

Show(ui) ==
  /\ timers' = ui.timers
  /\ appMessageTimeoutRef' = ui.ref
  /\ overallAppMessage' = ui.msg

\* resetP2PReceiveStates without a message (part_001:371-372), on the
\* receive state; the timer set is the caller's.
ClearReceiveStates ==
  /\ p2pReceiveTimeoutIdRef' = NoTimer
  /\ p2pReceivingFileMeta' = NoMeta
  /\ p2pReceivedFileChunks' = <<>>
  /\ p2pFileTransferProgress' = NoProgress

ManualTaskCanRun == TaskCanRun /\ manualMicrotasks = <<>>

ManualStartEnabled ==
  /\ manualP2PRoomIdInput # ""
  /\ manualP2PConnectionStatus \notin {"connecting", "connected"}

ManualInit ==
  /\ manualP2PService = 0
  /\ manualP2PRoomIdInput = ""
  /\ manualP2PConnectionStatus = "disconnected"
  /\ fileForManualP2P = NoFile
  /\ manualSvc = [k \in ManualServiceIds |-> NoManualService]
  /\ manualMicrotasks = <<>>
  /\ manualSend = NoManualSend
  /\ rxPending = NoRxPending
  /\ emitted = <<>>
  /\ downloaded = NoDownload
  /\ logged = "none"
  /\ arrived = NoArrival

NoOutput ==
  /\ emitted' = <<>>
  /\ downloaded' = NoDownload

shareOnly == <<shareFlowStep, itemToShare, shareTargetRoomIdInput,
               shareP2PServiceInstance, shareP2PTimeoutIdRef, effectDep,
               microtasks, svc, p2pSend, storeVars, attemptDone>>

\* onChange of the manual room id field (part_001:822).
SetManualP2PRoomIdInput(value) ==
  /\ ManualTaskCanRun
  /\ manualP2PConnectionStatus \notin {"connecting", "connected"}
  /\ value # manualP2PRoomIdInput
  /\ manualP2PRoomIdInput' = value
  /\ manualSvc' = Quiet(manualSvc)
  /\ NoOutput /\ logged' = "none"
  /\ UNCHANGED <<relayVars, shareOnly, chunkRun, timers, appMessageTimeoutRef,
                 overallAppMessage, p2pReceiveTimeoutIdRef, p2pReceivingFileMeta,
                 p2pReceivedFileChunks, p2pFileTransferProgress,
                 manualP2PService, manualP2PConnectionStatus, fileForManualP2P,
                 manualMicrotasks, manualSend, rxPending, arrived>>

\* startManualP2P (part_001:458-493), from Create & Start or Join & Start
\* (part_001:823-824).  The cleanup of the effect on manualP2PService
\* (part_001:111) then destroys the instance the handler has destroyed
\* already; destroy has nothing left to do on it (P2PService.ts:141-148).
StartManualP2P(isInitiator) ==
  /\ ManualTaskCanRun
  /\ ManualStartEnabled
  /\ NoOutput
  /\ IF Trim(manualP2PRoomIdInput) = ""
       THEN /\ Show(SetAppMessageFx(Ui, "manual_no_room", "error",
                                    APP_MESSAGE_TIMEOUT_MS))
            /\ manualSvc' = Quiet(manualSvc)
            /\ logged' = "none"
            /\ UNCHANGED <<manualP2PService, manualP2PConnectionStatus,
                           manualMicrotasks, arrived, p2pReceiveTimeoutIdRef,
                           p2pReceivingFileMeta, p2pReceivedFileChunks,
                           p2pFileTransferProgress>>
       ELSE \E k \in ManualServiceIds :
              /\ ~manualSvc[k].made
              /\ \A j \in ManualServiceIds : j < k => manualSvc[j].made
              /\ LET old == manualP2PService
                     table == Quiet(manualSvc)
                 IN /\ manualSvc' = [DestroyIn(table, old) EXCEPT
                                       ![k] = NewManualService(isInitiator)]
                    /\ manualMicrotasks' =
                         QueueAfterDestroy(manualMicrotasks, manualSvc, old)
              /\ manualP2PService' = k
              /\ manualP2PConnectionStatus' = "connecting"
              /\ logged' = "cleared"
              /\ Show(SetAppMessageFx(
                        [Ui EXCEPT !.timers = @ \ {p2pReceiveTimeoutIdRef}],
                        "manual_start", "info", 0))
              /\ ClearReceiveStates
              /\ arrived' = NoArrival
  /\ UNCHANGED <<relayVars, shareOnly, chunkRun, manualP2PRoomIdInput,
                 fileForManualP2P, manualSend, rxPending>>

\* ws.onopen -> initializePeer (P2PService.ts:33-37, 66-81).
ManualWsOpens(k) ==
  /\ ManualTaskCanRun
  /\ manualSvc[k].ws = "CONNECTING"
  /\ manualSvc' = [Quiet(manualSvc) EXCEPT ![k].ws = "OPEN",
                                           ![k].peer = "connecting",
                                           ![k].peerRef = TRUE]
  /\ NoOutput /\ logged' = "none"
  /\ UNCHANGED <<relayVars, shareVars, chunkRun, manualP2PService,
                 manualP2PRoomIdInput, manualP2PConnectionStatus,
                 fileForManualP2P, manualMicrotasks, manualSend, rxPending,
                 arrived>>

\* The socket has closed and ws.onclose with it, the peer torn down as well.
AfterWsCloseClosingPeer(s) ==
  [s EXCEPT !.ws = "CLOSED",
            !.peer = IF @ \in {"connecting", "connected"} THEN "destroyed" ELSE @]

\* The socket has closed and ws.onclose has run (P2PService.ts:60-63): the
\* close is logged, the call of options.onClose is commented out.
AfterWsClose(s) == [s EXCEPT !.ws = "CLOSED"]

ManualWsCloses(k) ==
  /\ ManualTaskCanRun
  /\ manualSvc[k].ws = "OPEN"
  /\ manualSvc' = [Quiet(manualSvc) EXCEPT ![k] = AfterWsClose(@)]
  /\ NoOutput /\ logged' = "none"
  /\ UNCHANGED <<relayVars, shareVars, chunkRun, manualP2PService,
                 manualP2PRoomIdInput, manualP2PConnectionStatus,
                 fileForManualP2P, manualMicrotasks, manualSend, rxPending,
                 arrived>>

\* peer 'connect' (P2PService.ts:94-96) -> onConnect (part_001:471-475).
ManualOnConnect(k) ==
  /\ ManualTaskCanRun
  /\ manualSvc[k].peer = "connecting"
  /\ manualSvc' = [Quiet(manualSvc) EXCEPT ![k].peer = "connected",
                                           ![k].fired.connect = @ + 1]
  /\ manualP2PConnectionStatus' = "connected"
  /\ logged' = "system"
  /\ Show(SetAppMessageFx(Ui, "manual_connected", "success",
                          APP_MESSAGE_TIMEOUT_MS))
  /\ NoOutput
  /\ UNCHANGED <<relayVars, shareOnly, chunkRun, p2pReceiveTimeoutIdRef,
                 p2pReceivingFileMeta, p2pReceivedFileChunks,
                 p2pFileTransferProgress, manualP2PService,
                 manualP2PRoomIdInput, fileForManualP2P, manualMicrotasks,
                 manualSend, rxPending, arrived>>

\* ws.onerror (P2PService.ts:55-58) or peer 'error' (P2PService.ts:108-111)
\* -> onError (part_001:477-483).  The socket that errored closes; a peer
\* that errors destroys itself and emits 'close' after 'error'.  Nothing
\* here destroys the service.
ManualOnError(k, cause) ==
  /\ ManualTaskCanRun
  /\ cause = "ws" => manualSvc[k].ws \in {"CONNECTING", "OPEN", "ABORTED"}
  /\ cause = "peer" => manualSvc[k].peer \in {"connecting", "connected"}
  /\ manualSvc' = [Quiet(manualSvc) EXCEPT
                     ![k].ws = IF cause = "ws" THEN "CLOSED" ELSE @,
                     ![k].peer = IF cause = "peer" THEN "destroyed" ELSE @,
                     ![k].fired.error = @ + 1]
  /\ manualMicrotasks' = IF cause = "peer" THEN <<k>> ELSE <<>>
  /\ manualP2PConnectionStatus' = "failed"
  /\ logged' = "system"
  /\ Show(SetAppMessageFx(Ui, "manual_error", "error", 0))
  /\ manualP2PService' =
       IF manualSvc[k].cap.manualP2PService = k THEN 0 ELSE manualP2PService
  /\ NoOutput
  /\ UNCHANGED <<relayVars, shareOnly, chunkRun, p2pReceiveTimeoutIdRef,
                 p2pReceivingFileMeta, p2pReceivedFileChunks,
                 p2pFileTransferProgress, manualP2PRoomIdInput,
                 fileForManualP2P, manualSend, rxPending, arrived>>

\* onClose (part_001:484-490), on everything but manualSvc and the queue.
ManualOnCloseCb(k) ==
  /\ manualP2PConnectionStatus' = "disconnected"
  /\ logged' = "system"
  /\ Show(SetAppMessageFx(
            [Ui EXCEPT !.timers = @ \ {p2pReceiveTimeoutIdRef}],
            "manual_closed", "info", APP_MESSAGE_TIMEOUT_MS))
  /\ manualP2PService' =
       IF manualSvc[k].cap.manualP2PService = k THEN 0 ELSE manualP2PService
  /\ ClearReceiveStates
  /\ NoOutput
  /\ UNCHANGED <<relayVars, shareOnly, chunkRun, manualP2PRoomIdInput,
                 fileForManualP2P, manualSend, rxPending, arrived>>

\* peer 'close' raised by the remote side or the network
\* (P2PService.ts:113-115) -> onClose.
ManualPeerCloses(k) ==
  /\ ManualTaskCanRun
  /\ manualSvc[k].peer \in {"connecting", "connected"}
  /\ manualSvc' = [Quiet(manualSvc) EXCEPT ![k].peer = "destroyed",
                                           ![k].fired.close = @ + 1]
  /\ UNCHANGED manualMicrotasks
  /\ ManualOnCloseCb(k)

\* peer 'close' emitted for a peer that was destroyed or that errored.
ManualDestroyedPeerEmitsClose ==
  /\ manualMicrotasks # <<>>
  /\ LET k == Head(manualMicrotasks)
     IN /\ manualSvc' = [Quiet(manualSvc) EXCEPT ![k].fired.close = @ + 1]
        /\ manualMicrotasks' = Tail(manualMicrotasks)
        /\ ManualOnCloseCb(k)

\* The file-end branch from the download on (part_001:419-424): the link is
\* clicked, the log and the notice say so, the receive state is reset.
DeliverAndReset(ui, meta, bytes) ==
  /\ downloaded' = [name |-> meta.name, bytes |-> bytes, saved |-> TRUE]
  /\ logged' = "system"
  /\ LET u == SetAppMessageFx(ui, "rx_downloaded", "success",
                               APP_MESSAGE_TIMEOUT_MS)
     IN Show([u EXCEPT !.timers = @ \ {p2pReceiveTimeoutIdRef}])
  /\ ClearReceiveStates

\* resetP2PReceiveStates(errorMessage, 'manual') (part_001:370-381).
ResetWithError(ui, tag) ==
  /\ downloaded' = NoDownload
  /\ logged' = "system"
  /\ Show(SetAppMessageFx([ui EXCEPT !.timers = @ \ {p2pReceiveTimeoutIdRef}],
                          tag, "error", 0))
  /\ ClearReceiveStates

\* commonP2POnDataHandler(data, p2pContext) up to its first await
\* (part_001:383-456), on the receive state, the notice, the log and the
\* download.  current, meta and chunks are the service, the descriptor and
\* the chunk list of the render the handler was built in.
CommonP2POnDataHandler(current, meta, chunks, frame) ==
  LET disarmed == [Ui EXCEPT !.timers = @ \ {p2pReceiveTimeoutIdRef}]
  IN CASE current = 0 ->
            \* part_001:386
            /\ downloaded' = NoDownload /\ logged' = "none"
            /\ UNCHANGED <<timers, appMessageTimeoutRef, overallAppMessage,
                           p2pReceiveTimeoutIdRef, p2pReceivingFileMeta,
                           p2pReceivedFileChunks, p2pFileTransferProgress,
                           rxPending>>
       [] current # 0 /\ frame.type = "file-meta" ->
            \* part_001:391-397
            /\ p2pReceivingFileMeta' = MetaOf(frame)
            /\ p2pReceivedFileChunks' = <<>>
            /\ p2pFileTransferProgress' =
                 [type |-> "receive", filename |-> frame.name, progress |-> 0]
            /\ logged' = "system"
            /\ p2pReceiveTimeoutIdRef' = ReceiveTimer("meta", P2P_RECEIVE_TIMEOUT_MS)
            /\ timers' = disarmed.timers
                           \cup {ReceiveTimer("meta", P2P_RECEIVE_TIMEOUT_MS)}
            /\ downloaded' = NoDownload
            /\ UNCHANGED <<appMessageTimeoutRef, overallAppMessage, rxPending>>
       [] current # 0 /\ frame.type = "file-end"
            /\ meta.set /\ frame.name = meta.name ->
            \* part_001:398-424
            IF meta.isCompressed
              THEN /\ rxPending' = [waiting |-> TRUE, meta |-> meta,
                                    blob |-> Blob(chunks)]
                   /\ p2pReceiveTimeoutIdRef' = NoTimer
                   /\ Show(SetAppMessageFx(disarmed, "rx_decompressing",
                                           "info", 0))
                   /\ downloaded' = NoDownload /\ logged' = "none"
                   /\ UNCHANGED <<p2pReceivingFileMeta, p2pReceivedFileChunks,
                                  p2pFileTransferProgress>>
              ELSE /\ DeliverAndReset(
                        SetAppMessageFx(disarmed, "rx_processing", "info", 0),
                        meta, Blob(chunks))
                   /\ UNCHANGED rxPending
       [] current # 0 /\ frame.type = "r2-file-share" ->
            \* part_001:427-430, handleDownloadR2 up to its request
            \* (part_001:256-260)
            /\ logged' = "system"
            /\ Show(SetAppMessageFx(Ui, "cloud_download", "info", 0))
            /\ downloaded' = NoDownload
            /\ UNCHANGED <<p2pReceiveTimeoutIdRef, p2pReceivingFileMeta,
                           p2pReceivedFileChunks, p2pFileTransferProgress,
                           rxPending>>
       [] current # 0 /\ frame.type = "chunk" /\ meta.set ->
            \* part_001:438-449
            LET currentChunks == AppendChunk(chunks, frame.bytes)
                currentSize == ByteTotal(currentChunks)
                timer == IF currentSize < meta.size
                           THEN ReceiveTimer("more_chunks", P2P_RECEIVE_TIMEOUT_MS)
                           ELSE ReceiveTimer("file_end",
                                             P2P_RECEIVE_TIMEOUT_MS \div 2)
            IN /\ p2pReceivedFileChunks' = currentChunks
               /\ p2pFileTransferProgress' =
                    [type |-> "receive", filename |-> meta.name,
                     progress |-> Percent(currentSize, meta.size)]
               /\ p2pReceiveTimeoutIdRef' = timer
               /\ timers' = disarmed.timers \cup {timer}
               /\ downloaded' = NoDownload /\ logged' = "none"
               /\ UNCHANGED <<appMessageTimeoutRef, overallAppMessage,
                              p2pReceivingFileMeta, rxPending>>
       [] current # 0 /\ frame.type = "chunk" /\ ~meta.set ->
            \* part_001:450-452
            /\ downloaded' = NoDownload /\ logged' = "none"
            /\ UNCHANGED <<timers, appMessageTimeoutRef, overallAppMessage,
                           p2pReceiveTimeoutIdRef, p2pReceivingFileMeta,
                           p2pReceivedFileChunks, p2pFileTransferProgress,
                           rxPending>>
       [] OTHER ->
            \* part_001:425-426, 431-436: a chat line, a control frame
            \* no branch took, or a string that is not JSON goes to the
            \* message log
            /\ downloaded' = NoDownload /\ logged' = "peer"
            /\ UNCHANGED <<timers, appMessageTimeoutRef, overallAppMessage,
                           p2pReceiveTimeoutIdRef, p2pReceivingFileMeta,
                           p2pReceivedFileChunks, p2pFileTransferProgress,
                           rxPending>>

\* peer 'data' (P2PService.ts:103-106) -> onData (part_001:476) ->
\* commonP2POnDataHandler(data, 'manual') up to its first await
\* (part_001:383-456).  manualP2PService, p2pReceivingFileMeta and
\* p2pReceivedFileChunks are those of the render startManualP2P ran in.
ManualOnData(k, frame) ==
  /\ ManualTaskCanRun
  /\ manualSvc[k].peer = "connected"
  /\ arrived.frames < MaxFrames
  /\ rxPending.waiting =>
       ~(/\ manualSvc[k].cap.manualP2PService # 0
         /\ frame.type = "file-end"
         /\ manualSvc[k].cap.p2pReceivingFileMeta.isCompressed)
  /\ manualSvc' = Quiet(manualSvc)
  /\ emitted' = <<>>
  /\ arrived' = CASE frame.type = "file-meta" ->
                       [meta |-> MetaOf(frame), chunks |-> <<>>,
                        frames |-> arrived.frames + 1]
                  [] frame.type = "chunk" ->
                       [arrived EXCEPT !.chunks = Append(@, frame.bytes),
                                       !.frames = @ + 1]
                  [] OTHER -> [arrived EXCEPT !.frames = @ + 1]
  /\ CommonP2POnDataHandler(manualSvc[k].cap.manualP2PService,
                            manualSvc[k].cap.p2pReceivingFileMeta,
                            manualSvc[k].cap.p2pReceivedFileChunks, frame)
  /\ UNCHANGED <<relayVars, shareOnly, chunkRun, manualP2PService,
                 manualP2PRoomIdInput, manualP2PConnectionStatus,
                 fileForManualP2P, manualMicrotasks, manualSend>>

\* A file the peer of a share attempt sends back, and its frames.
ShareRxFile == [name |-> "c.txt", ext |-> ".txt", type |-> "text/plain",
                bytes |-> <<1>>]
ShareRxFrames == Range(SenderFrames(ShareRxFile, MaxFileLen))

\* peer 'data' (P2PService.ts:103-106) -> onData (part_001:634) ->
\* commonP2POnDataHandler(data, 'share_flow_receiver') up to its first await.
\* shareP2PServiceInstance, p2pReceivingFileMeta and p2pReceivedFileChunks
\* are those of the render executeShareAttempt ran in.
ShareOnData(k, frame) ==
  /\ ManualTaskCanRun
  /\ svc[k].peer = "connected"
  /\ arrived.frames < MaxFrames
  /\ ~rxPending.waiting
  /\ arrived' = [arrived EXCEPT !.frames = @ + 1]
  /\ emitted' = <<>>
  /\ CommonP2POnDataHandler(svc[k].cap.shareP2PServiceInstance,
                            svc[k].cap.p2pReceivingFileMeta,
                            svc[k].cap.p2pReceivedFileChunks, frame)
  /\ UNCHANGED <<relayVars, shareOnly, chunkRun, manualP2PService,
                 manualP2PRoomIdInput, manualP2PConnectionStatus,
                 fileForManualP2P, manualMicrotasks, manualSend, manualSvc>>

\* commonP2POnDataHandler after `await finalBlob.arrayBuffer()`
\* (part_001:410-424): inflate, then the download; a blob that does not
\* inflate resets the receive state with an error (part_001:414-417).
DecompressResumes ==
  /\ ManualTaskCanRun
  /\ rxPending.waiting
  /\ rxPending' = NoRxPending
  /\ manualSvc' = Quiet(manualSvc)
  /\ emitted' = <<>>
  /\ IF CanInflate(rxPending.blob)
       THEN DeliverAndReset(
              SetAppMessageFx(Ui, "rx_decompressed", "success",
                              APP_MESSAGE_TIMEOUT_MS),
              rxPending.meta, Inflate(rxPending.blob))
       ELSE ResetWithError(Ui, "rx_decompress_error")
  /\ UNCHANGED <<relayVars, shareOnly, chunkRun, manualP2PService,
                 manualP2PRoomIdInput, manualP2PConnectionStatus,
                 fileForManualP2P, manualMicrotasks, manualSend, arrived>>

\* The receive deadline expires (part_001:397, 446, 448):
\* resetP2PReceiveStates(`... timed out ...`, 'manual').
ReceiveTimerFires(t) ==
  /\ ManualTaskCanRun
  /\ t \in timers /\ t.kind = "receive"
  /\ manualSvc' = Quiet(manualSvc)
  /\ emitted' = <<>>
  /\ ResetWithError([Ui EXCEPT !.timers = @ \ {t}], "rx_timeout")
  /\ UNCHANGED <<relayVars, shareOnly, chunkRun, manualP2PService,
                 manualP2PRoomIdInput, manualP2PConnectionStatus,
                 fileForManualP2P, manualMicrotasks, manualSend, rxPending,
                 arrived>>

\* The auto-clear of a notice runs (part_001:106-108).
NoticeTimerFires(t) ==
  /\ ManualTaskCanRun
  /\ t \in timers /\ t.kind = "appmsg"
  /\ timers' = timers \ {t}
  /\ appMessageTimeoutRef' = IF appMessageTimeoutRef = t THEN NoTimer
                                                       ELSE appMessageTimeoutRef
  /\ overallAppMessage' = IF overallAppMessage.tag = t.tag THEN NoAppMessage
                                                           ELSE overallAppMessage
  /\ manualSvc' = Quiet(manualSvc)
  /\ NoOutput /\ logged' = "none"
  /\ UNCHANGED <<relayVars, shareOnly, chunkRun,
                 p2pReceiveTimeoutIdRef, p2pReceivingFileMeta,
                 p2pReceivedFileChunks, p2pFileTransferProgress,
                 manualP2PService, manualP2PRoomIdInput,
                 manualP2PConnectionStatus, fileForManualP2P, manualMicrotasks,
                 manualSend, rxPending, arrived>>

\* cancelP2PFileReceive (part_001:702-704), from Cancel Receive
\* (part_001:842-849).
CancelP2PFileReceive ==
  /\ ManualTaskCanRun
  /\ manualP2PConnectionStatus = "connected"
  /\ p2pFileTransferProgress.type = "receive"
  /\ p2pReceivingFileMeta.set
  /\ manualSvc' = Quiet(manualSvc)
  /\ emitted' = <<>>
  /\ ResetWithError(Ui, "rx_cancelled")
  /\ UNCHANGED <<relayVars, shareOnly, chunkRun, manualP2PService,
                 manualP2PRoomIdInput, manualP2PConnectionStatus,
                 fileForManualP2P, manualMicrotasks, manualSend, rxPending,
                 arrived>>

\* handleManualP2PFileSelect (part_001:495), the file input of the actions
\* block shown while connected (part_001:830-834).
HandleManualP2PFileSelect(file) ==
  /\ ManualTaskCanRun
  /\ manualP2PConnectionStatus = "connected"
  /\ file # fileForManualP2P
  /\ fileForManualP2P' = file
  /\ Show(SetAppMessageFx(Ui, "", "info", 0))
  /\ manualSvc' = Quiet(manualSvc)
  /\ NoOutput /\ logged' = "none"
  /\ UNCHANGED <<relayVars, shareOnly, chunkRun, p2pReceiveTimeoutIdRef,
                 p2pReceivingFileMeta, p2pReceivedFileChunks,
                 p2pFileTransferProgress, manualP2PService,
                 manualP2PRoomIdInput, manualP2PConnectionStatus,
                 manualMicrotasks, manualSend, rxPending, arrived>>

\* part_001:835 : Send File is disabled without a file and while that file
\* is being sent.
SendFileEnabled ==
  /\ manualP2PConnectionStatus = "connected"
  /\ fileForManualP2P # NoFile
  /\ ~(p2pFileTransferProgress.type = "send"
       /\ p2pFileTransferProgress.filename = fileForManualP2P.name)

\* handleSendManualP2PFile and performP2PSendAndUpdateState up to the file
\* read (part_001:541-547, 324-339).
HandleSendManualP2PFile ==
  /\ ManualTaskCanRun
  /\ SendFileEnabled
  /\ manualSend = NoManualSend
  /\ manualSvc' = Quiet(manualSvc)
  /\ NoOutput /\ logged' = "none"
  /\ IF manualP2PService = 0 \/ manualP2PConnectionStatus # "connected"
       THEN /\ Show(SetAppMessageFx(Ui, "manual_not_connected", "error",
                                    APP_MESSAGE_TIMEOUT_MS))
            /\ UNCHANGED <<manualSend, p2pFileTransferProgress>>
       ELSE /\ manualSend' = [phase |-> "reading", svc |-> manualP2PService,
                              file |-> fileForManualP2P]
            /\ p2pFileTransferProgress' =
                 [type |-> "send", filename |-> fileForManualP2P.name,
                  progress |-> IF ShouldCompress(fileForManualP2P) THEN -1 ELSE 0]
            /\ Show(SetAppMessageFx(Ui, "manual_preparing", "info", 0))
  /\ UNCHANGED <<relayVars, shareOnly, chunkRun, p2pReceiveTimeoutIdRef,
                 p2pReceivingFileMeta, p2pReceivedFileChunks, manualP2PService,
                 manualP2PRoomIdInput, manualP2PConnectionStatus,
                 fileForManualP2P, manualMicrotasks, rxPending, arrived>>

\* performP2PSendAndUpdateState from the file read on (part_001:335-367) with
\* the callbacks of handleSendManualP2PFile (part_001:548-563): the frames go
\* to service.send one after the other, then onComplete; a read that fails
\* goes to onError.
ManualSendResumes(readOk) ==
  /\ ManualTaskCanRun
  /\ manualSend.phase = "reading"
  /\ manualSend' = NoManualSend
  /\ downloaded' = NoDownload /\ logged' = "none"
  /\ p2pFileTransferProgress' = NoProgress
  /\ IF readOk
       THEN LET frames == SenderFrames(manualSend.file, ChunkBytes)
                k == manualSend.svc
            IN /\ emitted' = frames
               /\ manualSvc' = [Quiet(manualSvc) EXCEPT ![k] = SendAll(@, frames)]
               /\ Show(SetAppMessageFx(Ui, "manual_sent", "success",
                                       APP_MESSAGE_TIMEOUT_MS))
               /\ fileForManualP2P' = NoFile
       ELSE /\ emitted' = <<>>
            /\ manualSvc' = Quiet(manualSvc)
            /\ Show(SetAppMessageFx(Ui, "manual_send_error", "error", 0))
            /\ UNCHANGED fileForManualP2P
  /\ UNCHANGED <<relayVars, shareOnly, chunkRun, p2pReceiveTimeoutIdRef,
                 p2pReceivingFileMeta, p2pReceivedFileChunks, manualP2PService,
                 manualP2PRoomIdInput, manualP2PConnectionStatus,
                 manualMicrotasks, rxPending, arrived>>

\* handleSendManualP2PMessage (part_001:530-539) with a message typed in.
HandleSendManualP2PMessage ==
  /\ ManualTaskCanRun
  /\ manualP2PConnectionStatus = "connected"
  /\ downloaded' = NoDownload
  /\ IF manualP2PService # 0 /\ manualP2PConnectionStatus = "connected"
       THEN /\ emitted' = <<TextFrame>>
            /\ manualSvc' = [Quiet(manualSvc) EXCEPT
                               ![manualP2PService] = Send(@, TextFrame)]
            /\ logged' = "me"
            /\ UNCHANGED <<timers, appMessageTimeoutRef, overallAppMessage>>
       ELSE /\ emitted' = <<>>
            /\ manualSvc' = Quiet(manualSvc)
            /\ logged' = "none"
            /\ Show(SetAppMessageFx(Ui, "manual_not_connected", "error",
                                    APP_MESSAGE_TIMEOUT_MS))
  /\ UNCHANGED <<relayVars, shareOnly, chunkRun, p2pReceiveTimeoutIdRef,
                 p2pReceivingFileMeta, p2pReceivedFileChunks,
                 p2pFileTransferProgress, manualP2PService,
                 manualP2PRoomIdInput, manualP2PConnectionStatus,
                 fileForManualP2P, manualMicrotasks, manualSend, rxPending,
                 arrived>>

\* What the socket and the peer of a manual service do, and the notices.
ManualLinkNext ==
  \/ \E v \in RoomInputs : SetManualP2PRoomIdInput(v)
  \/ \E isInitiator \in BOOLEAN : StartManualP2P(isInitiator)
  \/ \E k \in ManualServiceIds : ManualWsOpens(k)
  \/ \E k \in ManualServiceIds : ManualWsCloses(k)
  \/ \E k \in ManualServiceIds : ManualOnConnect(k)
  \/ \E k \in ManualServiceIds, cause \in {"ws", "peer"} : ManualOnError(k, cause)
  \/ \E k \in ManualServiceIds : ManualPeerCloses(k)
  \/ ManualDestroyedPeerEmitsClose
  \/ \E t \in timers : NoticeTimerFires(t)

\* The client as receiver: the peer delivers frames, the user sends nothing.
ReceiveNext ==
  \/ ManualLinkNext
  \/ \E k \in ManualServiceIds, frame \in RxFrames : ManualOnData(k, frame)
  \/ DecompressResumes
  \/ \E t \in timers : ReceiveTimerFires(t)
  \/ CancelP2PFileReceive

\* The client as sender: the user sends files and chat lines, the peer
\* delivers nothing.
SendNext ==
  \/ ManualLinkNext
  \/ \E file \in ManualFiles \cup {NoFile} : HandleManualP2PFileSelect(file)
  \/ HandleSendManualP2PFile
  \/ \E readOk \in BOOLEAN : ManualSendResumes(readOk)
  \/ HandleSendManualP2PMessage

\* ============================== a payload through the split and the reassembly

NoRun == [phase |-> "none", payload |-> <<>>, chunkSize |-> 0,
          inFlight |-> <<>>, progress |-> <<>>, received |-> <<>>,
          blob |-> <<>>]

ByteSeqs == UNION {[1..n -> Bytes] : n \in 0..MaxFileLen}
ChunkSizes == 1..(MaxFileLen + 1)

\* The sender's loop runs over the payload.
SplitPayload ==
  /\ chunkRun.phase = "chosen"
  /\ chunkRun' = [chunkRun EXCEPT
                    !.phase = "sending",
                    !.inFlight = ChunkLoop(chunkRun.payload, 0, chunkRun.chunkSize),
                    !.progress = SenderProgress(Len(chunkRun.payload), 0,
                                                chunkRun.chunkSize)]
  /\ UNCHANGED <<relayVars, shareVars, manualVars>>

\* The channel delivers the next chunk, in send order; the receiver appends
\* it to its list.
ReceiveChunk ==
  /\ chunkRun.phase = "sending"
  /\ chunkRun.inFlight # <<>>
  /\ chunkRun' = [chunkRun EXCEPT
                    !.inFlight = Tail(@),
                    !.received = AppendChunk(@, Head(chunkRun.inFlight))]
  /\ UNCHANGED <<relayVars, shareVars, manualVars>>

\* file-end: the receiver builds the blob from its list.
Reassemble ==
  /\ chunkRun.phase = "sending"
  /\ chunkRun.inFlight = <<>>
  /\ chunkRun' = [chunkRun EXCEPT !.phase = "assembled",
                                  !.blob = Blob(chunkRun.received)]
  /\ UNCHANGED <<relayVars, shareVars, manualVars>>

ChunkNext == SplitPayload \/ ReceiveChunk \/ Reassemble

\* A payload and a chunk size, chosen and not yet split.
PayloadRuns ==
  {[NoRun EXCEPT !.phase = "chosen", !.payload = b, !.chunkSize = c] :
     b \in ByteSeqs, c \in ChunkSizes}

ShareNext ==
  \/ \E n \in LocalFiles : InitiateShareProcess(FileItem(n))
  \/ \E n \in StoredAtStart \cup LocalFiles : InitiateShareProcess(MetadataItem(n))
  \/ \E v \in RoomInputs : SetShareTargetRoomIdInput(v)
  \/ ExecuteShareAttempt
  \/ EffectCleanup
  \/ CancelShareProcess
  \/ \E k \in ServiceIds : WsOpens(k)
  \/ \E k \in ServiceIds : WsCloses(k)
  \/ \E k \in ServiceIds : ShareOnConnect(k)
  \/ \E k \in ServiceIds, cause \in {"ws", "peer"} : ShareOnError(k, cause)
  \/ \E k \in ServiceIds : PeerCloses(k)
  \/ DestroyedPeerEmitsClose
  \/ \E t \in timers : TimerFires(t)
  \/ HandleShareR2Fallback
  \/ \E ok \in BOOLEAN : UploadRequestReturns(ok)
  \/ \E listed \in BOOLEAN : UploadFinishes(listed)

Init == RelayInit /\ ShareInit /\ ManualInit /\ chunkRun = NoRun

SpecShare == Init /\ [][ShareNext]_vars

\* A task the event loop owes a run: a queued 'close' emission, the effect
\* cleanup of a committed render, the answer of a storage request.
PendingTask ==
  \/ DestroyedPeerEmitsClose
  \/ EffectCleanup
  \/ \E ok \in BOOLEAN : UploadRequestReturns(ok)
  \/ \E listed \in BOOLEAN : UploadFinishes(listed)

\* The event loop does not stall while such a task is pending.  Nothing
\* obliges the user, the network or the remote peer to act.
ShareFairness == WF_vars(PendingTask)

FairSpecShare == SpecShare /\ ShareFairness

SpecRelay == Init /\ [][RelayNext]_vars

SpecReceive == Init /\ [][ReceiveNext]_vars

SpecSend == Init /\ [][SendNext]_vars

\* One client with the manual section and the share flow in use together:
\* the user brings up a manual connection first and starts to share while it
\* is connected; each of the two peers then delivers frames.  Connections fail
\* on the signaling socket only and no timer runs.
ShareNotBegun == shareFlowStep = "idle" /\ itemToShare = NoItem
ManualConnected == \E k \in ManualServiceIds : manualSvc[k].peer = "connected"

CrossNext ==
  \/ ShareNotBegun /\ SetManualP2PRoomIdInput("r1")
  \/ ShareNotBegun /\ StartManualP2P(TRUE)
  \/ \E k \in ManualServiceIds : ShareNotBegun /\ ManualWsOpens(k)
  \/ \E k \in ManualServiceIds : ShareNotBegun /\ ManualOnConnect(k)
  \/ \E k \in ManualServiceIds :
       ShareNotBegun /\ manualSvc[k].ws = "CONNECTING" /\ ManualOnError(k, "ws")
  \/ \E n \in LocalFiles : ManualConnected /\ InitiateShareProcess(FileItem(n))
  \/ SetShareTargetRoomIdInput("r1")
  \/ ExecuteShareAttempt
  \/ EffectCleanup
  \/ \E k \in ServiceIds : WsOpens(k)
  \/ \E k \in ServiceIds : ShareOnConnect(k)
  \/ \E k \in ServiceIds : ShareOnError(k, "ws")
  \/ DestroyedPeerEmitsClose
  \/ \E k \in ManualServiceIds, frame \in RxFrames : ManualOnData(k, frame)
  \/ \E k \in ServiceIds, frame \in ShareRxFrames : ShareOnData(k, frame)

SpecCross == Init /\ [][CrossNext]_vars

\* Every payload and chunk size of the bounded sets, one run each.
ChunkInit ==
  RelayInit /\ ShareInit /\ ManualInit /\ chunkRun \in PayloadRuns

SpecChunks == ChunkInit /\ [][ChunkNext]_vars

\* ------------------------------------------------- the codec, end to end
\* A file goes through the sender (part_001:324-362) and its frames through
\* a receiver whose handler sees the state the frames before it left
\* (part_001:383-449); the file that comes out is sent on again.

\* Files by name ending, MIME type and content; '' is the type of a file the
\* browser knows no type for.
CodecFiles ==
  {[name |-> n[1], ext |-> n[2], type |-> ty, bytes |-> b] :
     n \in {<<"a.txt", ".txt">>, <<"b.zip", ".zip">>, <<"c.gz", ".gz">>,
             <<"d.rar", ".rar">>, <<"E.ZIP", ".ZIP">>},
     ty \in {"text/plain", "application/zip", "image/png", ""},
     b \in ByteSeqs}

\* performP2PSendAndUpdateState: every frame handed to service.send.
CodecSend ==
  /\ chunkRun.phase = "picked"
  /\ chunkRun' = [chunkRun EXCEPT
                    !.phase = "sending",
                    !.frames = SenderFrames(chunkRun.file, ChunkBytes),
                    !.inFlight = SenderFrames(chunkRun.file, ChunkBytes),
                    !.out = <<>>]
  /\ UNCHANGED <<relayVars, shareVars, manualVars>>

\* commonP2POnDataHandler on the next frame of the channel: file-meta sets
\* the descriptor (part_001:391-397), a chunk is appended (437-441), the
\* matching file-end builds the blob and inflates it when the descriptor
\* says so (398-424).
CodecDeliver ==
  /\ chunkRun.phase = "sending"
  /\ chunkRun.inFlight # <<>>
  /\ LET frame == Head(chunkRun.inFlight)
         rest == [chunkRun EXCEPT !.inFlight = Tail(@)]
         blob == Blob(chunkRun.chunks)
     IN chunkRun' =
          IF frame.type = "file-meta"
            THEN [rest EXCEPT !.meta = MetaOf(frame), !.chunks = <<>>]
          ELSE IF frame.type = "chunk"
            THEN IF chunkRun.meta.set
                   THEN [rest EXCEPT !.chunks = AppendChunk(@, frame.bytes)]
                   ELSE rest
          ELSE IF frame.type = "file-end" /\ chunkRun.meta.set
                  /\ frame.name = chunkRun.meta.name
            THEN IF chunkRun.meta.isCompressed /\ ~CanInflate(blob)
                   THEN [rest EXCEPT !.phase = "failed", !.meta = NoMeta,
                                     !.chunks = <<>>]
                   ELSE [rest EXCEPT
                           !.phase = "delivered",
                           !.out = IF chunkRun.meta.isCompressed
                                     THEN Inflate(blob) ELSE blob,
                           !.meta = NoMeta, !.chunks = <<>>]
          ELSE rest
  /\ UNCHANGED <<relayVars, shareVars, manualVars>>

\* The downloaded file is picked and sent on under the same name and type.
CodecResend ==
  /\ chunkRun.phase = "delivered"
  /\ chunkRun.cycles < MaxCycles
  /\ chunkRun' = [chunkRun EXCEPT
                    !.phase = "picked",
                    !.file = [@ EXCEPT !.bytes = chunkRun.out],
                    !.cycles = @ + 1]
  /\ UNCHANGED <<relayVars, shareVars, manualVars>>

CodecNext == CodecSend \/ CodecDeliver \/ CodecResend

\* Every file of the bounded set, picked and not yet sent.
CodecInit ==
  /\ RelayInit /\ ShareInit /\ ManualInit
  /\ chunkRun \in {[phase |-> "picked", file |-> f, original |-> f.bytes,
                     frames |-> <<>>, inFlight |-> <<>>, meta |-> NoMeta,
                     chunks |-> <<>>, out |-> <<>>, cycles |-> 0] :
                       f \in CodecFiles}

SpecCodec == CodecInit /\ [][CodecNext]_vars


\* =================================================== P2PService : signaling
\* One P2PService on its own, from its construction on: the signaling socket,
\* the peer, and the frames the socket's message handler is run with.
\* chunkRun holds the object: the fields of AfterDestroy, options.initiator,
\* the role the Peer was built with, the payloads handed to peer.signal, the
\* exceptions the handler caught and the calls of options.onError.

\* event.data of ws.onmessage (P2PService.ts:39-41): a signal frame with a
\* payload, one without, a frame of another type, a string that is not JSON.
SignalFrames ==
  {[type |-> "signal", payload |-> "offer"],
   [type |-> "signal", payload |-> "candidate"],
   [type |-> "signal", payload |-> ""],
   [type |-> "user-joined", payload |-> ""],
   [type |-> "not-json", payload |-> ""]}

\* The test of the handler with the peer left out.
FeedsWhateverPeer(s, frame) == frame.type = "signal" /\ frame.payload # ""

\* message.type === 'signal' && message.payload && this.peer
\* (P2PService.ts:42).
FeedsPeer(s, frame) ==
  frame.type = "signal" /\ frame.payload # "" /\ s.peerRef

RoleOf(initiator) == IF initiator THEN "initiator" ELSE "joiner"

\* new P2PService(options) (P2PService.ts:20-31).
SignalInit ==
  /\ RelayInit /\ ShareInit /\ ManualInit
  /\ chunkRun \in {[phase |-> "signaling", initiator |-> i,
                     ws |-> "CONNECTING", wsRef |-> TRUE,
                     peer |-> "none", peerRef |-> FALSE, role |-> "none",
                     signalled |-> <<>>, received |-> 0, caught |-> 0,
                     erred |-> 0] : i \in BOOLEAN}

\* ws.onopen -> initializePeer (P2PService.ts:33-37, 66-81).
SignalWsOpens ==
  /\ chunkRun.phase = "signaling"
  /\ chunkRun.ws = "CONNECTING"
  /\ chunkRun' = [chunkRun EXCEPT !.ws = "OPEN", !.peer = "connecting",
                                  !.peerRef = TRUE,
                                  !.role = RoleOf(chunkRun.initiator)]
  /\ UNCHANGED <<relayVars, shareVars, manualVars>>

\* ws.onmessage (P2PService.ts:39-53).  The handler stays on the socket
\* object whatever becomes of the service, so it is run here in every state.
\* peer.signal on a peer that destroyed itself either returns or throws; the
\* catch takes the exception.
SignalOnMessage(frame, throws) ==
  /\ chunkRun.phase = "signaling"
  /\ chunkRun.received < MaxSignals
  /\ throws => FeedsPeer(chunkRun, frame) /\ chunkRun.peer = "destroyed"
  /\ chunkRun' =
       [chunkRun EXCEPT
          !.received = @ + 1,
          !.signalled = IF FeedsPeer(chunkRun, frame)
                          THEN Append(@, frame.payload) ELSE @,
          !.caught = IF throws \/ frame.type = "not-json" THEN @ + 1 ELSE @]
  /\ UNCHANGED <<relayVars, shareVars, manualVars>>

\* peer 'connect' (P2PService.ts:94-96).
SignalPeerConnects ==
  /\ chunkRun.phase = "signaling"
  /\ chunkRun.peer = "connecting"
  /\ chunkRun' = [chunkRun EXCEPT !.peer = "connected"]
  /\ UNCHANGED <<relayVars, shareVars, manualVars>>

\* peer 'error' (P2PService.ts:108-111): the peer destroys itself, the
\* service keeps its reference.
SignalPeerErrors ==
  /\ chunkRun.phase = "signaling"
  /\ chunkRun.peer \in {"connecting", "connected"}
  /\ chunkRun' = [chunkRun EXCEPT !.peer = "destroyed", !.erred = @ + 1]
  /\ UNCHANGED <<relayVars, shareVars, manualVars>>

\* ws.onerror, then ws.onclose (P2PService.ts:55-63).
SignalWsFails ==
  /\ chunkRun.phase = "signaling"
  /\ chunkRun.ws \in {"CONNECTING", "OPEN", "ABORTED"}
  /\ chunkRun' = [chunkRun EXCEPT !.ws = "CLOSED", !.erred = @ + 1]
  /\ UNCHANGED <<relayVars, shareVars, manualVars>>

\* destroy() (P2PService.ts:139-149).
SignalDestroy ==
  /\ chunkRun.phase = "signaling"
  /\ chunkRun.wsRef \/ chunkRun.peerRef
  /\ chunkRun' = AfterDestroy(chunkRun)
  /\ UNCHANGED <<relayVars, shareVars, manualVars>>

SignalNext ==
  \/ SignalWsOpens
  \/ \E frame \in SignalFrames, throws \in BOOLEAN :
       SignalOnMessage(frame, throws)
  \/ SignalPeerConnects
  \/ SignalPeerErrors
  \/ SignalWsFails
  \/ SignalDestroy

SpecSignal == SignalInit /\ [][SignalNext]_vars


\* ======================================================== scheduled (sweep)
\* The cron handler of the worker (part_000:189-261) over FILE_METADATA_KV
\* and YOUR_R2_BUCKET.  chunkRun holds the two stores (kv: key -> value,
\* r2: the object keys), their contents when the sweep began, the keys still
\* to be processed and the keys whose processing threw.

SweepKeys == 1..MaxKeys

\* The value stored under a key: nothing, an empty string, a string that is
\* not JSON, or a JSON object whose uploadedAt is missing, is no date, or is
\* a date `age` whole days before the sweep.  Records written by
\* finalize-upload carry filename = key (part_000:51-59).
Absent == [kind |-> "absent", age |-> 0]
SweepValues ==
  {Absent,
   [kind |-> "empty", age |-> 0],
   [kind |-> "unparsable", age |-> 0],
   [kind |-> "no-date", age |-> 0],
   [kind |-> "bad-date", age |-> 0]}
    \cup {[kind |-> "dated", age |-> a] :
            a \in {TTL_PERIOD_DAYS - 1, TTL_PERIOD_DAYS, TTL_PERIOD_DAYS + 1}}

RECURSIVE KeysFrom(_, _)
\* The keys present in kv from key k on, in key order.
KeysFrom(kv, k) ==
  IF k > MaxKeys THEN <<>>
  ELSE IF kv[k] = Absent THEN KeysFrom(kv, k + 1)
       ELSE <<k>> \o KeysFrom(kv, k + 1)

\* listResult.keys of FILE_METADATA_KV.list() called without a cursor
\* (part_000:199-203): the first page of the keys, list_complete unread.
ListedKeys(kv) ==
  LET all == KeysFrom(kv, 1)
  IN SubSeq(all, 1, IF Len(all) < ListLimit THEN Len(all) ELSE ListLimit)

\* What the loop body decides for a value (part_000:205-250).
SweepDecision(value) ==
  CASE value.kind \in {"absent", "empty"} -> "skip"      \* 206-212
    [] value.kind = "unparsable" -> "skip"               \* 215-224
    [] value.kind = "no-date" -> "skip"                  \* 226, 247-250
    [] value.kind = "bad-date" -> "skip"                 \* 229-233
    [] OTHER -> IF value.age > TTL_PERIOD_DAYS           \* 235-237
                  THEN "delete" ELSE "keep"

SweepInit ==
  /\ RelayInit /\ ShareInit /\ ManualInit
  /\ chunkRun \in {[phase |-> "scheduled", kv |-> kv,
                     r2 |-> {k \in SweepKeys : kv[k] # Absent},
                     kvBefore |-> kv,
                     keys |-> <<>>, failed |-> {}] :
                       kv \in [SweepKeys -> SweepValues]}

\* scheduled up to the loop (part_000:189-203).
SweepLists ==
  /\ chunkRun.phase = "scheduled"
  /\ chunkRun' = [chunkRun EXCEPT
                    !.keys = ListedKeys(chunkRun.kv),
                    !.phase = IF ListedKeys(chunkRun.kv) = <<>>
                                THEN "finished" ELSE "sweeping"]
  /\ UNCHANGED <<relayVars, shareVars, manualVars>>

\* One pass of the loop body (part_000:203-255).  fails names the storage
\* call that throws, if any; the inner catch takes it and the loop goes on.
SweepKey(fails) ==
  /\ chunkRun.phase = "sweeping"
  /\ LET key == Head(chunkRun.keys)
         decision == SweepDecision(chunkRun.kv[key])
         rest == Tail(chunkRun.keys)
     IN /\ fails \in {"r2.delete", "kv.delete"} => decision = "delete"
        /\ chunkRun' =
             [chunkRun EXCEPT
                !.keys = rest,
                !.phase = IF rest = <<>> THEN "finished" ELSE "sweeping",
                !.failed = IF fails = "none" THEN @ ELSE @ \cup {key},
                !.r2 = IF decision = "delete"
                          /\ fails \in {"none", "kv.delete"}
                         THEN @ \ {key} ELSE @,
                !.kv = IF decision = "delete" /\ fails = "none"
                         THEN [@ EXCEPT ![key] = Absent] ELSE @]
  /\ UNCHANGED <<relayVars, shareVars, manualVars>>

SweepNext ==
  \/ SweepLists
  \/ \E fails \in {"none", "kv.get", "r2.delete", "kv.delete"} :
       SweepKey(fails)

SpecSweep == SweepInit /\ [][SweepNext]_vars


\* ==================================================== properties of the relay

\* The sockets registered in the room of `server`, the sender left out.
OtherSessions(server) == Range(SessionsOf(RoomOf(server))) \ {server}

\* C1: the relay never hands a message back to the session that sent it:
\* no frame of a listener run is addressed to the socket the message came
\* from, whatever connects, messages, closes and errors came before.
C1_NoEcho == \A f \in wire : f.to # lastSender

\* C1, its case: a message relayed in a room of at least two sessions, with
\* at least one frame sent.
C1_Witness ==
  /\ lastSender # NoSocket
  /\ wire # {}
  /\ Len(SessionsOf(RoomOf(lastSender))) >= 2

\* A step in which the message listener of `server` ran.
ListenerRan(server) == lastSender' = server

\* C2 as stated: every inbound message reaches, payload unchanged, every
\* other session registered in the sender's room.
C2_EveryRegisteredSession ==
  [][\A s \in SockIds : ListenerRan(s) =>
       \A p \in Payloads, f \in SUBSET OtherSessions(s) :
         OnMessage(s, p, f) =>
           \A r \in OtherSessions(s) : [to |-> r, data |-> p] \in wire']_vars

\* C2, amended: every inbound message reaches, payload unchanged, every other
\* session registered in the sender's room that is OPEN and whose send does
\* not fail; and nothing else is sent: no frame to the sender, to a session
\* of another room or to one that is not OPEN, and no frame with other data.
C2_EveryOpenSession ==
  [][\A s \in SockIds : ListenerRan(s) =>
       \A p \in Payloads, f \in SUBSET OtherSessions(s) :
         OnMessage(s, p, f) =>
           wire' = {[to |-> r, data |-> p] :
                      r \in {x \in OtherSessions(s) : readyState[x] = "OPEN"} \ f}]_vars

\* C2, its case: a message was relayed to another session of the sender's
\* room while a different room held an OPEN session of its own.
C2_Witness ==
  /\ lastSender # NoSocket
  /\ wire # {}
  /\ \A f \in wire : f.to \in OtherSessions(lastSender)
  /\ \E r \in Rooms \ {RoomOf(lastSender)} :
       \E x \in Range(sessions[r]) : readyState[x] = "OPEN"


\* =============================================== properties of the share flow

ConnectAttemptSteps == {"p2p_attempt", "p2p_r2_pointer_attempt"}
FailureSteps == {"p2p_direct_transfer_failed_offer_r2", "share_failed"}

\* The service of the attempt in progress: the one held in state.
Current(k) == svc[k].made /\ shareP2PServiceInstance = k

\* Start Share is offered only when no transport can still raise an event:
\* the block that holds the button is hidden in every step an attempt with
\* a live transport can be in.
StartHiddenWhileLive ==
  \A k \in ServiceIds :
    Live(svc[k]) => ~(UserCanAct /\ ShareTargetSectionShown)

\* onConnect leaves the step alone, so the sender never starts.
DirectTransferNeverBegins ==
  /\ shareFlowStep \notin {"p2p_connected_for_action", "p2p_direct_transfer"}
  /\ p2pSend = NoSend

\* share_complete_success is set by the sender's completion callback and by
\* the grace timer, both behind the test onConnect never passes.
ShareNeverCompletes == shareFlowStep # "share_complete_success"

\* C4: within one attempt the failure edge is driven at most once and only
\* from a non-terminal p2p step; once the attempt has reached a final step, no
\* later error, close or timer event of its transport changes the step.
C4_FailureEdgeOnce ==
  /\ [](\A k \in ServiceIds : svc[k].failEdges <= 1)
  /\ [][\A k \in ServiceIds :
          /\ svc'[k].failEdges > svc[k].failEdges =>
               shareFlowStep \in NonTerminalP2P
          /\ (k \in attemptDone /\ svc'[k].fired # svc[k].fired) =>
               shareFlowStep' = shareFlowStep]_vars

\* C4, its case: an attempt failed on an error, its transport's close event
\* came afterwards, and the step is still the failure step.
C4_Witness ==
  \E k \in ServiceIds :
    /\ k \in attemptDone
    /\ svc[k].failEdges = 1
    /\ svc[k].fired.error = 1
    /\ svc[k].fired.close = 1
    /\ shareFlowStep = FailureStep(svc[k].isDirectFileShare)

\* C5: a step that fails an attempt from a non-terminal p2p step leads to
\* p2p_direct_transfer_failed_offer_r2 exactly when the item is a local file
\* and to share_failed exactly when it is a stored file's metadata.
C5_FailureMapping ==
  [][(shareFlowStep \in NonTerminalP2P /\ shareFlowStep' \in FailureSteps) =>
       /\ shareFlowStep' = "p2p_direct_transfer_failed_offer_r2"
            <=> itemToShare.kind = "File"
       /\ shareFlowStep' = "share_failed"
            <=> itemToShare.kind = "FileMetadata"]_vars

\* C5, its case: an attempt with a local file has failed, and a later one with
\* a stored file has failed too.
C5_Witness ==
  \E j, k \in ServiceIds :
    /\ svc[j].failEdges = 1 /\ svc[j].isDirectFileShare
    /\ svc[k].failEdges = 1 /\ ~svc[k].isDirectFileShare
    /\ shareFlowStep = "share_failed"

\* C6: once the transport of the attempt in progress has connected, its
\* connect deadline is no longer armed and the step has left the
\* connect-attempt step for the transfer or pointer-send step.
C6_ConnectAdvances ==
  \A k \in ServiceIds :
    (Current(k) /\ svc[k].fired.connect > 0 /\ svc[k].peer = "connected") =>
      /\ ConnectTimer(k) \notin timers
      /\ shareFlowStep \notin ConnectAttemptSteps

\* C6, its case: an attempt was started as initiator and its transport has
\* connected; onConnect has run and cleared the deadline's handle.
C6_Witness ==
  \E k \in ServiceIds :
    /\ Current(k) /\ svc[k].initiator
    /\ svc[k].fired.connect = 1 /\ svc[k].peer = "connected"
    /\ shareP2PTimeoutIdRef = NoTimer

\* C7: for a local file, a transport that has connected and stays connected
\* leads to share_complete_success with the transport destroyed.
C7_ConnectedFileShareCompletes ==
  \A k \in ServiceIds :
    (svc[k].isDirectFileShare /\ svc[k].peer = "connected")
      ~> \/ svc[k].peer # "connected"
         \/ shareFlowStep = "share_complete_success" /\ ~Live(svc[k])

C10_OnePointerEnvelope ==
  \A k \in ServiceIds :
    (svc[k].made /\ ~svc[k].isDirectFileShare /\ svc[k].fired.connect > 0) =>
      svc[k].sent = <<[type |-> "r2-file-share", payload |-> svc[k].item.name]>>

\* The connect deadline never expires: its timer is cleared by the effect
\* cleanup of the render that stored the new instance.
ConnectDeadlineNeverRuns == \A k \in ServiceIds : svc[k].fired.timeout = 0

\* C11: a pointer share whose transport never connects ends in share_failed
\* with the transport destroyed.
C11_PointerShareTimesOut ==
  \A k \in ServiceIds :
    (Current(k) /\ ~svc[k].isDirectFileShare
       /\ shareFlowStep = "p2p_r2_pointer_attempt")
      ~> \/ svc[k].fired.connect > 0
         \/ shareFlowStep = "share_failed" /\ ~Live(svc[k])

\* C11, its case: a pointer attempt is in progress, its render is committed,
\* no peer has connected and no connect deadline is armed any more.
C11_Witness ==
  \E k \in ServiceIds :
    /\ Current(k) /\ ~svc[k].isDirectFileShare /\ effectDep = k
    /\ shareFlowStep = "p2p_r2_pointer_attempt"
    /\ svc[k].fired.connect = 0 /\ Live(svc[k])
    /\ ConnectTimer(k) \notin timers

\* C12: while the item being shared is a stored file's metadata, the step is
\* never r2_fallback_upload and no upload runs; no step taken with such an
\* item starts an upload or stores anything, whatever failed before.
C12_PointerNeverUploads ==
  /\ [](itemToShare.kind = "FileMetadata" =>
          shareFlowStep # "r2_fallback_upload" /\ r2Upload = NoUpload)
  /\ [][itemToShare.kind = "FileMetadata" =>
          /\ shareFlowStep' # "r2_fallback_upload"
          /\ r2Upload' = NoUpload
          /\ UNCHANGED <<r2Bucket, fileMetadataKV>>]_vars

\* C12, its case: the attempt to share a stored file's metadata has failed on
\* a transport error and the flow rests in share_failed with that item.
C12_Witness ==
  \E k \in ServiceIds :
    /\ itemToShare.kind = "FileMetadata" /\ svc[k].item = itemToShare
    /\ svc[k].failEdges = 1 /\ svc[k].fired.error = 1
    /\ shareFlowStep = "share_failed"
    /\ r2Upload = NoUpload

\* ---------------------------------------------------------------- C13

RECURSIVE FrameBytes(_, _, _)
FrameBytes(frames, i, j) ==
  IF i > j THEN <<>> ELSE frames[i].bytes \o FrameBytes(frames, i + 1, j)

\* frames is what the protocol asks for a payload sent under a name with
\* chunk size c: file-meta, the chunks, file-end.
WellFormedTransfer(frames, name, payload, compressed, c) ==
  LET n == Len(frames)
  IN /\ n >= 2
     /\ frames[1] = MetaFrame(name, Len(payload), compressed)
     /\ frames[n] = EndFrame(name)
     /\ n - 2 = (Len(payload) + c - 1) \div c
     /\ \A i \in 2..(n - 1) :
          /\ frames[i].type = "chunk"
          /\ Len(frames[i].bytes) >= 1
          /\ Len(frames[i].bytes) <= c
     /\ FrameBytes(frames, 2, n - 1) = payload

\* C14: for each file sent the sender hands to service.send one file-meta
\* frame first, carrying the name, the length of the data to send and the
\* compression flag, then ceil(size/C) chunks of 1..C bytes each that put
\* end to end are the data, then one file-end frame last; and with
\* C = 65536 a buffer of 200,000 bytes goes out as chunks of 65536, 65536,
\* 65536 and 3392 bytes.
C14_SenderFrameSequence ==
  /\ [](ChunkLengths(200000, 0, CHUNK_SIZE) = <<65536, 65536, 65536, 3392>>)
  /\ [][(manualSend.phase = "reading" /\ manualSend' = NoManualSend
             /\ emitted' # <<>>) =>
          WellFormedTransfer(emitted', manualSend.file.name,
                             DataForSending(manualSend.file),
                             ShouldCompress(manualSend.file), ChunkBytes)]_vars

\* C14, its case: a file of several chunks, the last one partial, has just
\* been sent over a connected peer, which got every frame.
C14_Witness ==
  \E k \in ManualServiceIds :
    /\ Len(emitted) >= 4
    /\ emitted[1].type = "file-meta"
    /\ Len(emitted[Len(emitted) - 1].bytes) < ChunkBytes
    /\ manualSvc[k].peer = "connected"
    /\ manualSvc[k].sent = emitted

\* ---------------------------------------------------------------- C15

\* The receive deadline is armed.
ReceiveDeadlineArmed == p2pReceiveTimeoutIdRef \in timers

\* C15: a file-end frame whose name is not that of the active descriptor
\* changes nothing: the descriptor, the chunk list (and so the byte total)
\* and the armed receive deadline stay as they are, no decompression is
\* started and nothing is downloaded.
C15_MismatchedFileEndIgnored ==
  [][\A k \in ManualServiceIds, frame \in RxFrames :
       (/\ frame.type = "file-end"
        /\ p2pReceivingFileMeta.set
        /\ frame.name # p2pReceivingFileMeta.name
        /\ ManualOnData(k, frame))
       => /\ UNCHANGED <<p2pReceivingFileMeta, p2pReceivedFileChunks,
                         p2pReceiveTimeoutIdRef, rxPending>>
          /\ ReceiveDeadlineArmed' = ReceiveDeadlineArmed
          /\ downloaded' = NoDownload]_vars

\* C15, its case: the peer announced one file on this connection, and a
\* download under another name has just been started.
C15_Witness ==
  /\ arrived.meta.set
  /\ downloaded.saved
  /\ downloaded.name # arrived.meta.name

\* ---------------------------------------------------------------- C16

\* The byte sequences that can be put together from chunks of a list, kept
\* in the order of the list.
RECURSIVE Concats(_)
Concats(chunks) ==
  IF chunks = <<>> THEN {<<>>}
  ELSE LET rest == Concats(Tail(chunks))
       IN rest \cup {Head(chunks) \o r : r \in rest}

\* C16: once a file-meta has arrived on a connection, whatever is made into
\* a file - downloaded as it is, or handed to the decompression first -
\* consists of chunks received after the last file-meta only: no byte
\* received before it is part of a delivered file.
C16_NoEarlierBytesDelivered ==
  [][arrived.meta.set =>
       /\ (downloaded'.saved /\ ~rxPending.waiting) =>
            downloaded'.bytes \in Concats(arrived.chunks)
       /\ (rxPending'.waiting /\ ~rxPending.waiting) =>
            rxPending'.blob \in Concats(arrived.chunks)]_vars

\* C16, its case: the peer sent a file-meta and no chunk since, and a file
\* of the announced name that is not empty has just been downloaded.
C16_Witness ==
  /\ arrived.meta.set
  /\ arrived.chunks = <<>>
  /\ downloaded.saved
  /\ downloaded.name = arrived.meta.name
  /\ downloaded.bytes # <<>>

\* ---------------------------------------------------------------- C17

\* Nothing of a transfer is left in the receive state.
ReceiveStateCleared ==
  /\ ~p2pReceivingFileMeta.set
  /\ p2pReceivedFileChunks = <<>>
  /\ p2pFileTransferProgress = NoProgress
  /\ p2pReceiveTimeoutIdRef = NoTimer
  /\ \A t \in timers : t.kind # "receive"

\* C17: a file-meta, and a chunk of an announced transfer, leave the receive
\* deadline running, so that silence after them ends in a timeout; and the
\* deadline running out reports the timeout and clears the descriptor, the
\* chunk list, the progress and the timer.
C17_SilenceTimesOut ==
  [][/\ \A k \in ManualServiceIds, frame \in RxFrames :
          (/\ \/ frame.type = "file-meta"
              \/ frame.type = "chunk" /\ arrived.meta.set
           /\ ManualOnData(k, frame))
          => ReceiveDeadlineArmed'
     /\ \A t \in timers :
          ReceiveTimerFires(t) =>
            /\ overallAppMessage' = [type |-> "error", tag |-> "rx_timeout"]
            /\ logged' = "system"
            /\ ReceiveStateCleared']_vars

\* C17, its case: the peer has announced a file on a connected transport,
\* and no deadline runs and no transfer is on record.
C17_Witness ==
  \E k \in ManualServiceIds :
    /\ manualSvc[k].peer = "connected"
    /\ manualP2PService = k
    /\ manualP2PConnectionStatus = "connected"
    /\ arrived.meta.set
    /\ arrived.frames = 1
    /\ ~ReceiveDeadlineArmed
    /\ ~p2pReceivingFileMeta.set
    /\ overallAppMessage.tag # "rx_timeout"

\* ---------------------------------------------------------------- C18

\* The descriptor in the receive state is the one the peer announced last on
\* this connection.
AnnouncedIsActive ==
  /\ arrived.meta.set
  /\ p2pReceivingFileMeta = arrived.meta

\* C18: a file-end that names the active descriptor makes a file of the
\* chunks received since the file-meta, in the order of receipt: without
\* compression it is downloaded at once under the descriptor's name, with
\* compression it is inflated first and then downloaded; the descriptor,
\* the chunk list and the receive timer are cleared.
C18_MatchingFileEndDelivers ==
  [][/\ \A k \in ManualServiceIds, frame \in RxFrames :
          (/\ frame.type = "file-end"
           /\ AnnouncedIsActive
           /\ frame.name = arrived.meta.name
           /\ ManualOnData(k, frame))
          => IF arrived.meta.isCompressed
               THEN /\ rxPending' = [waiting |-> TRUE, meta |-> arrived.meta,
                                     blob |-> Blob(arrived.chunks)]
                    /\ ~ReceiveDeadlineArmed'
               ELSE /\ downloaded' = [name |-> arrived.meta.name,
                                      bytes |-> Blob(arrived.chunks),
                                      saved |-> TRUE]
                    /\ ReceiveStateCleared'
     /\ (rxPending.waiting /\ ~rxPending'.waiting
           /\ CanInflate(rxPending.blob))
          => /\ downloaded' = [name |-> rxPending.meta.name,
                               bytes |-> Inflate(rxPending.blob),
                               saved |-> TRUE]
             /\ ReceiveStateCleared']_vars

\* C18, its case: the peer sent file-meta, the whole content in a chunk and
\* the file-end of an uncompressed file over a connected transport; the
\* descriptor is still active and nothing was downloaded.
C18_Witness ==
  \E k \in ManualServiceIds :
    /\ manualSvc[k].peer = "connected"
    /\ AnnouncedIsActive
    /\ arrived.meta = MetaOf(MetaFrame(ZipFile.name, Len(ZipFile.bytes), FALSE))
    /\ arrived.chunks = <<ZipFile.bytes>>
    /\ arrived.frames = 3
    /\ logged = "peer"
    /\ ~downloaded.saved

\* ---------------------------------------------------------------- C19

ConnectAndCloseAtMostOnce ==
  \A k \in ManualServiceIds :
    manualSvc[k].fired.connect <= 1 /\ manualSvc[k].fired.close <= 1

\* A socket that left CONNECTING, and a peer that was destroyed, are never
\* set up again for the same service.
NoRetry ==
  [][\A k \in ManualServiceIds :
       /\ (manualSvc[k].made /\ manualSvc[k].ws # "CONNECTING"
             /\ manualSvc'[k].made)
            => manualSvc'[k].ws # "CONNECTING"
       /\ (manualSvc[k].peer = "destroyed" /\ manualSvc'[k].made)
            => manualSvc'[k].peer \in {"destroyed", "none"}]_vars

\* C19: over the life of one P2PService each of onConnect, onError and
\* onClose is called at most once, whatever the socket and the peer do.
C19_CallbacksAtMostOnce ==
  \A k \in ManualServiceIds :
    /\ manualSvc[k].fired.connect <= 1
    /\ manualSvc[k].fired.error <= 1
    /\ manualSvc[k].fired.close <= 1

\* C19, its case: one service whose onError has run for the socket and again
\* for the peer.
C19_Witness ==
  \E k \in ManualServiceIds :
    /\ manualSvc[k].fired.error = 2
    /\ manualSvc[k].ws = "CLOSED"
    /\ manualSvc[k].peer = "destroyed"

\* ---------------------------------------------------------------- C20

\* The transport is in its CONNECTED state: onConnect has run, and neither
\* onError nor onClose has, and it was not destroyed.
TransportConnected(k) ==
  /\ manualSvc[k].peerRef
  /\ manualSvc[k].peer = "connected"
  /\ manualSvc[k].fired.connect = 1
  /\ manualSvc[k].fired.error = 0
  /\ manualSvc[k].fired.close = 0

\* The service a step that sends something calls send on.
Sender ==
  IF manualSend.phase = "reading" /\ manualSend' = NoManualSend
    THEN manualSend.svc
    ELSE manualP2PService

\* send on a service whose peer is missing or not connected hands nothing
\* over and changes nothing on the service: no callback runs, the socket and
\* the peer stay as they are.
SendElsewhereIsNoOp ==
  [][(emitted' # <<>> /\ Sender # 0
        /\ ~(manualSvc[Sender].peerRef /\ manualSvc[Sender].peer = "connected"))
       => manualSvc'[Sender] = [manualSvc[Sender] EXCEPT !.sent = <<>>]]_vars

\* C20: whatever send handed to the direct connection, it did so on a
\* transport in its CONNECTED state.
C20_SendOnlyWhenConnected ==
  \A k \in ManualServiceIds :
    manualSvc[k].sent # <<>> => TransportConnected(k)

\* C20, its case: a transport whose onError has run has just passed a whole
\* file on to its peer.
C20_Witness ==
  \E k \in ManualServiceIds :
    /\ manualSvc[k].fired.error >= 1
    /\ manualSvc[k].ws = "CLOSED"
    /\ manualP2PConnectionStatus = "failed"
    /\ Len(emitted) >= 3
    /\ manualSvc[k].sent = emitted

\* ---------------------------------------------------------------- C21

\* The service holds a socket or a peer: destroy has something to release.
HoldsConnection(s) == s.made /\ (s.wsRef \/ s.peerRef)

\* Neither the direct connection nor the signaling connection is up or
\* coming up, and the service holds neither.
Released(s) ==
  /\ ~s.wsRef /\ ~s.peerRef
  /\ s.ws \notin {"CONNECTING", "OPEN"}
  /\ s.peer \notin {"connecting", "connected"}

\* C21: destroy, called on a service in whatever state it is in, leaves it
\* with its peer destroyed and its socket closed or closing and holding
\* neither; and destroy called again on any service changes nothing more.
C21_DestroyReleasesOnce ==
  /\ [](\A k \in ManualServiceIds :
          /\ Released(AfterDestroy(manualSvc[k]))
          /\ AfterDestroy(AfterDestroy(manualSvc[k])) = AfterDestroy(manualSvc[k]))
  /\ [][\A k \in ManualServiceIds :
          (HoldsConnection(manualSvc[k]) /\ ~HoldsConnection(manualSvc'[k]))
            => Released(manualSvc'[k])]_vars

\* A service was destroyed while its socket was open and its peer connected,
\* before any error or close.
DestroyedWhileConnected ==
  \E k \in ManualServiceIds :
    /\ manualSvc[k].fired.connect = 1 /\ manualSvc[k].fired.error = 0
    /\ manualSvc[k].fired.close = 0
    /\ manualSvc[k].peer = "destroyed" /\ Released(manualSvc[k])

\* C21, its case: a service was destroyed before its signaling socket had
\* opened.
C21_Witness ==
  \E k \in ManualServiceIds :
    /\ manualSvc[k].ws = "ABORTED"
    /\ manualSvc[k].peer = "none"
    /\ Released(manualSvc[k])

\* ---------------------------------------------------------------- C22

\* The signaling socket of service k closes in this step: it was open, is
\* closed, and that neither by destroy nor with an error event.
SignalingCloses(k) ==
  /\ manualSvc[k].ws = "OPEN" /\ manualSvc'[k].ws = "CLOSED"
  /\ manualSvc'[k].wsRef
  /\ manualSvc'[k].fired.error = manualSvc[k].fired.error

\* C22: when the signaling socket of a service whose peer is connected
\* closes, the peer stays connected, none of the callbacks runs (the counts
\* and the connection status stay as they are, nothing is queued), and send
\* on the service still hands data to the peer.
C22_SignalingCloseLeavesPeer ==
  [][\A k \in ManualServiceIds :
       (manualSvc[k].peer = "connected" /\ SignalingCloses(k))
         => /\ manualSvc'[k].peer = "connected"
            /\ manualSvc'[k].peerRef
            /\ manualSvc'[k].fired = manualSvc[k].fired
            /\ UNCHANGED <<manualP2PConnectionStatus, manualP2PService,
                           manualMicrotasks, overallAppMessage>>
            /\ Send(manualSvc'[k], TextFrame).sent = <<TextFrame>>]_vars

\* C22, its case: a whole file has just gone to the peer over a service
\* whose signaling socket closed after the peer had connected, with no
\* error and no close reported.
C22_Witness ==
  \E k \in ManualServiceIds :
    /\ manualSvc[k].ws = "CLOSED" /\ manualSvc[k].wsRef
    /\ manualSvc[k].peer = "connected"
    /\ manualSvc[k].fired = [connect |-> 1, error |-> 0, close |-> 0]
    /\ manualP2PConnectionStatus = "connected"
    /\ Len(emitted) >= 3
    /\ manualSvc[k].sent = emitted

\* ---- C23
\* A relay request without a room id, or whose Upgrade header is not
\* 'websocket', is answered with a 4xx status and registers no Session: the
\* session array of every room and the state of every socket stay as they
\* were.
Refused(roomId, upgradeHeader) == roomId = NoRoom \/ upgradeHeader # "websocket"

C23_RefusedRequestRegistersNothing ==
  [][\A r \in Rooms \cup {NoRoom}, h \in {"websocket", "none"} :
       (Refused(r, h) /\ Fetch(r, h))
         => /\ lastResponse' \in 400..499
            /\ sessions' = sessions
            /\ readyState' = readyState
            /\ wire' = {}]_vars

\* A room with two Sessions has just refused a request that was no upgrade.
C23_Witness ==
  /\ lastResponse = 426
  /\ \E r \in Rooms : Len(sessions[r]) = 2
  /\ \E s \in SockIds : readyState[s] = "NONE"

\* A request without a room id has just been refused by the route.
MissingRoomRefused == lastResponse = 400 /\ \E r \in Rooms : sessions[r] # <<>>

\* ---- C24
\* When send() throws for some recipients of a fan-out, every other open
\* Session of the room except the sender still gets the message, no frame
\* goes to the sender, and the room's session arrays are unchanged.
C24_SendFailureSkipsOneRecipient ==
  [][\A s \in SockIds, p \in Payloads :
       \A f \in SUBSET Range(SessionsOf(RoomOf(s))) :
         (f # {} /\ OnMessage(s, p, f))
           => /\ \A x \in Recipients(RoomOf(s), s) \ f :
                   RelayFrame(x, p) \in wire'
              /\ \A fr \in wire' : fr.to # s /\ fr.to \notin f
              /\ sessions' = sessions
              /\ readyState' = readyState]_vars

\* A fan-out has just reached a Session that stands after an open Session of
\* the same room whose send() threw.
C24_Witness ==
  /\ lastSender # NoSocket
  /\ \E r \in Rooms, t \in SockIds, x \in SockIds :
       /\ Before(r, t, x)
       /\ lastSender \in Range(sessions[r])
       /\ t # lastSender /\ readyState[t] = "OPEN"
       /\ \A fr \in wire : fr.to # t
       /\ \E fr \in wire : fr.to = x

\* ---- C25
\* A Session's close or error event removes that Session and no other from
\* the room's array, keeping the order of the rest, and sends nothing; a close
\* dispatched after the error of the same Session changes no array; and every
\* frame of a broadcast goes to a Session that is in the sender's room array
\* at that moment, so never to a removed one.
InSomeRoom(s) == \E r \in Rooms : s \in Range(sessions[r])

C25_CloseRemovesExactlyThatSession ==
  /\ [](\A fr \in wire :
          /\ InSomeRoom(fr.to)
          /\ readyState[fr.to] = "OPEN"
          /\ RoomOf(fr.to) = RoomOf(lastSender))
  /\ [][\A s \in SockIds :
          CloseOrErrorHandler(s)
            => /\ wire' = {}
               /\ \A r \in Rooms :
                    /\ Range(sessions'[r]) = Range(sessions[r]) \ {s}
                    /\ Len(sessions'[r]) = Cardinality(Range(sessions'[r]))
                    /\ \A a, b \in Range(sessions'[r]) :
                         Before(r, a, b)' <=> Before(r, a, b)
               /\ (~InSomeRoom(s) => sessions' = sessions)]_vars

\* A Session broke, its error event removed it and its close event is still
\* to come, and the two Sessions that remain in the room have just exchanged
\* a message.
C25_Witness ==
  \E s \in SockIds, r \in Rooms :
    /\ readyState[s] = "CLOSED" /\ sockEvents[s] = <<"close">>
    /\ ~InSomeRoom(s)
    /\ Len(sessions[r]) = 2
    /\ lastSender \in Range(sessions[r])
    /\ \E fr \in wire : fr.to \in Range(sessions[r]) /\ fr.to # lastSender

\* Both events of a broken Session have been dispatched and the room goes on.
CloseAfterErrorDispatched ==
  \E s \in SockIds :
    /\ readyState[s] = "CLOSED" /\ sockEvents[s] = <<>> /\ ~InSomeRoom(s)
    /\ \E r \in Rooms : sessions[r] # <<>>

\* ---- C26
\* The flow step is always a member of the declared type, and every change of
\* it is an edge of the specified graph: the success path, a failure edge
\* from a non-terminal p2p step, offer_r2 -> r2_fallback_upload -> idle, or
\* offer_r2 -> idle.
\* type UnifiedShareFlowStep (part_001:44-55).
UnifiedShareFlowStep ==
  {"idle", "awaiting_room_id", "p2p_connect_attempt",
   "p2p_connected_for_action", "p2p_direct_transfer", "p2p_r2_pointer_send",
   "p2p_direct_transfer_failed_offer_r2", "r2_fallback_upload",
   "share_complete_success", "share_failed"}

DeclaredP2PSteps ==
  {"p2p_connect_attempt", "p2p_connected_for_action", "p2p_direct_transfer",
   "p2p_r2_pointer_send"}

SpecifiedEdges ==
  {<<"idle", "awaiting_room_id">>,
   <<"awaiting_room_id", "p2p_connect_attempt">>,
   <<"p2p_connect_attempt", "p2p_connected_for_action">>,
   <<"p2p_connected_for_action", "p2p_direct_transfer">>,
   <<"p2p_connected_for_action", "p2p_r2_pointer_send">>,
   <<"p2p_direct_transfer", "share_complete_success">>,
   <<"p2p_r2_pointer_send", "share_complete_success">>,
   <<"p2p_direct_transfer_failed_offer_r2", "r2_fallback_upload">>,
   <<"r2_fallback_upload", "idle">>,
   <<"p2p_direct_transfer_failed_offer_r2", "idle">>}
  \cup (DeclaredP2PSteps \X FailureSteps)

C26_DeclaredStepsAndEdges ==
  /\ [](shareFlowStep \in UnifiedShareFlowStep)
  /\ [][shareFlowStep' # shareFlowStep
          => <<shareFlowStep, shareFlowStep'>> \in SpecifiedEdges]_vars

\* Start Share has been clicked for a local file: an attempt is under way.
C26_Witness ==
  /\ shareFlowStep \notin UnifiedShareFlowStep
  /\ shareP2PServiceInstance # 0
  /\ svc[shareP2PServiceInstance].ws = "OPEN"

\* The steps the code is ever in.
StepsTaken ==
  shareFlowStep \in {"idle", "awaiting_room_id", "p2p_attempt",
                     "p2p_r2_pointer_attempt",
                     "p2p_direct_transfer_failed_offer_r2", "share_failed",
                     "r2_fallback_upload"}

\* The steps as the code names them, read as the declared attempt step.
AsDeclared(step) ==
  IF step \in {"p2p_attempt", "p2p_r2_pointer_attempt"}
    THEN "p2p_connect_attempt" ELSE step

\* Cancel leaves the room prompt or a failure step for idle, and Start Share
\* starts anew from a failure step or from idle.
EdgesTaken ==
  [][shareFlowStep' # shareFlowStep
       => <<AsDeclared(shareFlowStep), AsDeclared(shareFlowStep')>> \in
            {<<"idle", "awaiting_room_id">>,
             <<"awaiting_room_id", "p2p_connect_attempt">>,
             <<"p2p_connect_attempt", "p2p_direct_transfer_failed_offer_r2">>,
             <<"p2p_connect_attempt", "share_failed">>,
             <<"p2p_direct_transfer_failed_offer_r2", "r2_fallback_upload">>,
             <<"r2_fallback_upload", "idle">>,
             <<"p2p_direct_transfer_failed_offer_r2", "idle">>,
             <<"awaiting_room_id", "idle">>,
             <<"share_failed", "idle">>,
             <<"share_failed", "p2p_connect_attempt">>,
             <<"p2p_direct_transfer_failed_offer_r2", "p2p_connect_attempt">>,
             <<"idle", "p2p_connect_attempt">>}]_vars

\* ---- C27
\* The sender compresses exactly when the file's MIME type is not one of the
\* known-incompressible types and its name ends in none of .gz, .zip, .rar;
\* the file-meta frame carries that decision as isCompressed and, as size,
\* the number of bytes of the chunk frames that follow it.
Compressible(file) ==
  /\ file.type \notin {"image/jpeg", "image/png", "image/gif", "video/mp4",
                        "application/zip", "application/gzip",
                        "application/pdf"}
  /\ file.ext \notin {".gz", ".zip", ".rar"}

RECURSIVE ChunkBytesOf(_)
ChunkBytesOf(frames) ==
  IF frames = <<>> THEN <<>>
  ELSE (IF Head(frames).type = "chunk" THEN Head(frames).bytes ELSE <<>>)
         \o ChunkBytesOf(Tail(frames))

C27_CompressionDecision ==
  chunkRun.phase \in {"sending", "delivered", "failed"} =>
    LET file == chunkRun.file
        meta == chunkRun.frames[1]
        sentBytes == ChunkBytesOf(chunkRun.frames)
    IN /\ meta.type = "file-meta"
       /\ meta.isCompressed = Compressible(file)
       /\ meta.size = Len(sentBytes)
       /\ sentBytes = IF Compressible(file) THEN Deflate(file.bytes)
                                              ELSE file.bytes
       /\ sentBytes # file.bytes <=> Compressible(file)

\* A text file whose name ends in .gz has been sent as it is.
C27_Witness ==
  /\ chunkRun.phase = "sending"
  /\ chunkRun.file.ext = ".gz" /\ chunkRun.file.type = "text/plain"
  /\ Len(chunkRun.file.bytes) = MaxFileLen
  /\ ~chunkRun.frames[1].isCompressed
  /\ chunkRun.frames[1].size = MaxFileLen

\* A file of unknown type with an upper-case .ZIP ending has been compressed.
UpperCaseEndingCompressed ==
  /\ chunkRun.phase = "sending"
  /\ chunkRun.file.ext = ".ZIP" /\ chunkRun.file.type = ""
  /\ chunkRun.frames[1].isCompressed
  /\ chunkRun.frames[1].size = Len(chunkRun.file.bytes) + 1

EmptyRoundTrip ==
  /\ chunkRun.phase = "delivered"
  /\ chunkRun.frames[1].isCompressed
  /\ chunkRun.frames[1].size > 0
  /\ chunkRun.original = <<>> /\ chunkRun.out = <<>>

\* ---- C29
\* While the chunks the peer has sent since its file-meta total no more than
\* the declared size, the progress the receiver shows after a chunk is the
\* rounded percentage of the bytes received so far: an integer of 0..100,
\* above the one shown before the chunk, and 100 once the total is the
\* declared size.
C29_ReceiveProgress ==
  [][\A k \in ManualServiceIds, frame \in RxFrames :
       (/\ frame.type = "chunk"
        /\ AnnouncedIsActive
        /\ ByteTotal(arrived.chunks) + Len(frame.bytes) <= arrived.meta.size
        /\ ManualOnData(k, frame))
         => LET before == ByteTotal(arrived.chunks)
                total == before + Len(frame.bytes)
                shown == p2pFileTransferProgress'
            IN /\ shown.type = "receive"
               /\ shown.filename = arrived.meta.name
               /\ shown.progress \in 0..100
               /\ shown.progress = Percent(total, arrived.meta.size)
               /\ shown.progress > Percent(before, arrived.meta.size)
               /\ total = arrived.meta.size => shown.progress = 100]_vars

\* The peer has sent the whole announced content and the receiver, its
\* descriptor active, still shows 0 percent.
C29_Witness ==
  /\ AnnouncedIsActive
  /\ arrived.meta.size > 0
  /\ ByteTotal(arrived.chunks) = arrived.meta.size
  /\ p2pFileTransferProgress =
       [type |-> "receive", filename |-> arrived.meta.name, progress |-> 0]

\* The receiver shows more than 100 percent.
ProgressAbove100 ==
  /\ p2pFileTransferProgress.type = "receive"
  /\ p2pFileTransferProgress.progress > 100
  /\ ByteTotal(arrived.chunks) <= arrived.meta.size

\* Math.round on the totals of the 200,000-byte scenario gives 33, 66, 98
\* and 100; a percentage of a part of the whole is within 0..100.
ScenarioPercents ==
  /\ Percent(65536, 200000) = 33
  /\ Percent(131072, 200000) = 66
  /\ Percent(196608, 200000) = 98
  /\ Percent(200000, 200000) = 100
  /\ \A whole \in 1..(MaxFileLen + 1) :
       \A part \in 0..whole :
         /\ Percent(part, whole) \in 0..100
         /\ part < whole => Percent(part, whole) < Percent(part + 1, whole)

\* ---- C30
\* Cancel Receive clears the descriptor, the chunk list and the progress,
\* disarms the receive deadline and sends no frame; and while the
\* cancellation is the last thing that happened to the receive state, a chunk
\* that arrives is dropped: the receive state stays cleared and nothing is
\* downloaded.
Cancelled == overallAppMessage.tag = "rx_cancelled" /\ ReceiveStateCleared

CancelClearsAndSendsNothing ==
  [][CancelP2PFileReceive
       => /\ ReceiveStateCleared'
          /\ emitted' = <<>>
          /\ \A k \in ManualServiceIds : manualSvc'[k].sent = <<>>
          /\ downloaded' = NoDownload]_vars

LaterChunksDropped ==
  [][\A k \in ManualServiceIds, frame \in RxFrames :
       (frame.type = "chunk" /\ Cancelled /\ arrived.meta.set
          /\ ManualOnData(k, frame))
         => /\ ReceiveStateCleared'
            /\ downloaded' = NoDownload]_vars

NothingDeliveredAfterCancel ==
  [][(Cancelled /\ arrived.meta.set)
       => ~(downloaded'.saved /\ downloaded'.name = arrived.meta.name)]_vars

C30_CancelDropsTransfer ==
  /\ CancelClearsAndSendsNothing
  /\ LaterChunksDropped
  /\ NothingDeliveredAfterCancel

\* A transfer was cancelled, and the chunk that arrived next is in the chunk
\* list, with progress shown and the deadline armed again.
C30_Witness ==
  /\ overallAppMessage.tag = "rx_cancelled"
  /\ ~p2pReceivingFileMeta.set
  /\ p2pReceivedFileChunks # <<>>
  /\ p2pFileTransferProgress.type = "receive"
  /\ ReceiveDeadlineArmed

\* The cancellation has just run on a transfer with the deadline armed.
JustCancelled ==
  /\ Cancelled /\ logged = "system" /\ arrived.meta.set
  /\ manualP2PConnectionStatus = "connected"

\* ---- C31
\* In a failure step the section with the Start Share control is shown,
\* and an attempt started from a failure step whose transport has connected
\* and stays connected comes to share_complete_success.
StartedFromFailure(k) ==
  svc[k].made /\ svc[k].cap.shareFlowStep \in FailureSteps

RetryOffered ==
  shareFlowStep \in FailureSteps
    => ShareTargetSectionShown

C31_RetryCanComplete ==
  /\ []RetryOffered
  /\ \A k \in ServiceIds :
       (StartedFromFailure(k) /\ svc[k].peer = "connected")
         ~> \/ svc[k].peer # "connected"
            \/ shareFlowStep = "share_complete_success"

\* An attempt started from a failure step is connected and the step is still
\* the one Start Share set.
C31_Witness ==
  \E k \in ServiceIds :
    /\ StartedFromFailure(k) /\ svc[k].peer = "connected"
    /\ shareP2PServiceInstance = k
    /\ shareFlowStep \in {"p2p_attempt", "p2p_r2_pointer_attempt"}
    /\ timers = {} /\ microtasks = <<>>

\* ---- C32
\* A file-meta that sets the descriptor arms the receive deadline at T_recv;
\* a chunk of the announced transfer arms it at T_recv / 2 when the bytes
\* received since the file-meta reach the declared size, and at T_recv when
\* they stay below it.
DeadlineArmedAt(delay) ==
  /\ p2pReceiveTimeoutIdRef \in timers
  /\ p2pReceiveTimeoutIdRef.kind = "receive"
  /\ p2pReceiveTimeoutIdRef.delay = delay

C32_DeadlineLength ==
  [][\A k \in ManualServiceIds, frame \in RxFrames :
       ManualOnData(k, frame) =>
         /\ (frame.type = "file-meta" /\ p2pReceivingFileMeta' = MetaOf(frame))
              => DeadlineArmedAt(P2P_RECEIVE_TIMEOUT_MS)'
         /\ (frame.type = "chunk" /\ AnnouncedIsActive)
              => IF ByteTotal(arrived.chunks) + Len(frame.bytes)
                      >= arrived.meta.size
                   THEN DeadlineArmedAt(P2P_RECEIVE_TIMEOUT_MS \div 2)'
                   ELSE DeadlineArmedAt(P2P_RECEIVE_TIMEOUT_MS)']_vars

\* The whole announced content has arrived, the descriptor is active, and the
\* deadline that runs is the full T_recv.
C32_Witness ==
  /\ AnnouncedIsActive
  /\ arrived.chunks # <<>>
  /\ ByteTotal(arrived.chunks) >= arrived.meta.size
  /\ DeadlineArmedAt(P2P_RECEIVE_TIMEOUT_MS)

\* The branches the handler takes do arm the two lengths.
HalfDeadlineArmed == DeadlineArmedAt(P2P_RECEIVE_TIMEOUT_MS \div 2)

\* ---- C33
\* For a payload of at least one byte the sender reports one progress value
\* after each chunk; each is an integer of 0..100, none is below the one
\* before it, and the last is 100.  For the 200,000-byte payload the values
\* are 33, 66, 98, 100.
C33_SenderProgress ==
  /\ SenderProgress(200000, 0, CHUNK_SIZE) = <<33, 66, 98, 100>>
  /\ (chunkRun.phase \in {"sending", "assembled"} /\ Len(chunkRun.payload) >= 1)
       => LET reported == chunkRun.progress
              n == Len(reported)
          IN /\ n = Len(chunkRun.inFlight) + Len(chunkRun.received)
             /\ n >= 1
             /\ \A i \in 1..n : reported[i] \in 0..100
             /\ \A i \in 1..(n - 1) : reported[i] <= reported[i + 1]
             /\ reported[n] = 100

\* A payload of full length has been split into more than one chunk, the
\* first progress value below 100.
C33_Witness ==
  /\ chunkRun.phase = "sending"
  /\ Len(chunkRun.payload) = MaxFileLen
  /\ Len(chunkRun.progress) >= 2
  /\ chunkRun.progress[1] \in 1..99
  /\ chunkRun.progress[Len(chunkRun.progress)] = 100

\* ---- C34
\* In a resting step (idle, share_complete_success, share_failed,
\* p2p_direct_transfer_failed_offer_r2) no connect deadline is armed and no
\* transport of an attempt is left undestroyed; and no connect deadline is
\* armed for a transport that has been destroyed.
RestingSteps ==
  {"idle", "share_complete_success", "share_failed",
   "p2p_direct_transfer_failed_offer_r2"}

NoConnectDeadlineAtRest ==
  shareFlowStep \in RestingSteps => \A t \in timers : t.kind # "connect"

Undestroyed(s) ==
  s.made /\ (s.wsRef \/ s.peerRef \/ s.ws \in {"CONNECTING", "OPEN"}
               \/ s.peer \in {"connecting", "connected"})

NoTransportAtRest ==
  shareFlowStep \in RestingSteps => \A k \in ServiceIds : ~Undestroyed(svc[k])

TimersOfDestroyedInert ==
  [][\A t \in timers :
       (t.kind \in {"connect", "grace"} /\ ~Undestroyed(svc[t.svc])
          /\ TimerFires(t))
         => shareFlowStep' = shareFlowStep]_vars

\* A connect deadline that is armed belongs to a transport not yet destroyed.
NoDeadlineOfDestroyed ==
  \A t \in timers : t.kind = "connect" => Undestroyed(svc[t.svc])

C34_RestingStepIsClean ==
  /\ NoConnectDeadlineAtRest
  /\ NoTransportAtRest
  /\ NoDeadlineOfDestroyed

\* A connected attempt has failed: the step is a failure step, the transport
\* is destroyed and no deadline is armed.
C34_Witness ==
  /\ shareFlowStep \in FailureSteps
  /\ \E k \in ServiceIds :
       /\ svc[k].fired.connect = 1 /\ svc[k].fired.error = 1
       /\ svc[k].peer = "destroyed" /\ svc[k].ws = "CLOSED"

\* A connect deadline is armed.
ConnectDeadlineArmed == \E t \in timers : t.kind = "connect"


\* ---- C35
\* Under any interleaving of accepted connections, closes and errors, no
\* update of a room's sessions array is lost: a socket that is OPEN stands in
\* exactly one room exactly once, a socket whose close and error events have
\* all been dispatched stands in none, and a socket enters a room only by the
\* request that accepted it there.
Occurrences(s) ==
  {<<r, i>> \in Rooms \X (1..MaxSockets) :
     i <= Len(sessions[r]) /\ sessions[r][i] = s}

SessionsExact ==
  \A s \in SockIds :
    /\ Cardinality(Occurrences(s)) <= 1
    /\ readyState[s] = "OPEN" => Cardinality(Occurrences(s)) = 1
    /\ (readyState[s] # "OPEN" /\ sockEvents[s] = <<>>) => Occurrences(s) = {}

EntersOnlyWhenAccepted ==
  [][\A s \in SockIds, r \in Rooms :
       (s \in Range(sessions'[r]) /\ s \notin Range(sessions[r]))
         => /\ readyState[s] = "NONE"
            /\ Fetch(r, "websocket")
            /\ sessions'[r] = Append(sessions[r], s)]_vars

C35_NoLostSessionUpdate == []SessionsExact /\ EntersOnlyWhenAccepted

\* Three connections accepted; the first and the last are gone and all their
\* events are dispatched, the second still stands alone in its room.
C35_Witness ==
  /\ \A s \in SockIds : sockEvents[s] = <<>>
  /\ readyState = [s \in SockIds |-> IF s = 2 THEN "OPEN" ELSE "CLOSED"]
  /\ \E r \in Rooms : sessions[r] = <<2>>


\* ---- C36
\* A malformed or out-of-sequence frame (a chunk or a file-end while no
\* descriptor is active, a string that is not JSON, a control frame of an
\* unknown type) leaves the descriptor, the chunk list and the receive timer
\* as they were, starts no download and no decompression, and leaves the peer
\* connected.
OutOfSequence(frame) ==
  \/ frame.type \in {"not-json", "unknown"}
  \/ frame.type \in {"chunk", "file-end"} /\ ~p2pReceivingFileMeta.set

ReceiveTimers(ts) == {t \in ts : t.kind = "receive"}

TransferUntouched ==
  /\ UNCHANGED <<p2pReceivingFileMeta, p2pReceivedFileChunks,
                 p2pReceiveTimeoutIdRef, rxPending>>
  /\ ReceiveTimers(timers') = ReceiveTimers(timers)
  /\ ~downloaded'.saved

\* The frames that are malformed in themselves are ignored.
MalformedIgnored ==
  [][\A k \in ManualServiceIds, frame \in {NotJsonFrame, UnknownFrame} :
       ManualOnData(k, frame)
         => TransferUntouched /\ manualSvc'[k].peer = "connected"]_vars

C36_MalformedFrameIgnored ==
  [][\A k \in ManualServiceIds, frame \in RxFrames :
       (ManualOnData(k, frame) /\ OutOfSequence(frame))
         => TransferUntouched /\ manualSvc'[k].peer = "connected"]_vars

\* No descriptor is active, and a chunk has just been taken into the chunk
\* list with a receive timer armed for it.
C36_Witness ==
  /\ ~p2pReceivingFileMeta.set
  /\ p2pReceivedFileChunks # <<>>
  /\ p2pReceiveTimeoutIdRef # NoTimer


\* ---- C37
\* The peer is built only by the open of the signaling socket, with the role
\* the service was constructed with, and neither changes afterwards; a signal
\* frame with a payload that arrives while the peer is built and destroy() has
\* not run is handed to peer.signal, in order of arrival; one that arrives
\* before the peer is built or after destroy() changes nothing but the count
\* of frames: no exception is caught and onError is not called.
PeerBuilt == chunkRun.role # "none"
DestroyRan == ~chunkRun.wsRef

PeerOnlyAfterOpen ==
  /\ chunkRun.ws \in {"CONNECTING", "ABORTED"} => ~PeerBuilt
  /\ PeerBuilt <=> chunkRun.peer # "none"
  /\ chunkRun.role \in {"none", RoleOf(chunkRun.initiator)}

RoleNeverChanges ==
  [][/\ chunkRun'.initiator = chunkRun.initiator
     /\ PeerBuilt => chunkRun'.role = chunkRun.role
     /\ (~PeerBuilt /\ chunkRun'.role # "none")
          => chunkRun.ws = "CONNECTING" /\ chunkRun'.ws = "OPEN"]_vars

SignalFramesFedOrDropped ==
  [][\A frame \in SignalFrames, throws \in BOOLEAN :
       (SignalOnMessage(frame, throws)
          /\ frame.type = "signal" /\ frame.payload # "")
         => /\ chunkRun'.erred = chunkRun.erred
            /\ chunkRun'.ws = chunkRun.ws /\ chunkRun'.peer = chunkRun.peer
            /\ IF PeerBuilt /\ ~DestroyRan
                 THEN chunkRun'.signalled
                        = Append(chunkRun.signalled, frame.payload)
                 ELSE /\ chunkRun'.signalled = chunkRun.signalled
                      /\ chunkRun'.caught = chunkRun.caught]_vars

C37_SignalingFeedsPeer ==
  /\ []PeerOnlyAfterOpen
  /\ RoleNeverChanges
  /\ SignalFramesFedOrDropped

\* A joiner whose peer was built took an offer and a candidate in that order;
\* destroy() ran, and the frame that came after was not handed on.
C37_Witness ==
  /\ chunkRun.phase = "signaling"
  /\ ~chunkRun.initiator /\ chunkRun.role = "joiner"
  /\ DestroyRan
  /\ chunkRun.signalled = <<"offer", "candidate">>
  /\ chunkRun.received = 3 /\ chunkRun.caught = 0

\* Frames arrived on a socket that never opened; none was handed on.
FramesBeforePeer ==
  /\ chunkRun.phase = "signaling"
  /\ ~PeerBuilt /\ chunkRun.received = 3 /\ chunkRun.signalled = <<>>


\* ---- C38
\* When the sweep has finished, every key whose processing did not throw and
\* whose uploadedAt was a valid date more than 7 days old has lost its object
\* and its metadata record, and every other such key has both as they were
\* when the sweep began.
SweptAsSpecified(k) ==
  LET was == chunkRun.kvBefore[k]
  IN IF was.kind = "dated" /\ was.age > TTL_PERIOD_DAYS
       THEN chunkRun.kv[k] = Absent /\ k \notin chunkRun.r2
       ELSE chunkRun.kv[k] = was /\ (k \in chunkRun.r2 <=> was # Absent)

C38_SweepDeletesExpired ==
  chunkRun.phase = "finished"
    => \A k \in SweepKeys : k \notin chunkRun.failed => SweptAsSpecified(k)

\* The same for the keys of the first page of the listing.
FirstPageSwept ==
  chunkRun.phase = "finished"
    => \A k \in Range(ListedKeys(chunkRun.kvBefore)) :
         k \notin chunkRun.failed => SweptAsSpecified(k)

\* A sweep finished without a failure over more keys than one listing
\* returns, the last of them expired.
C38_Witness ==
  /\ chunkRun.phase = "finished"
  /\ chunkRun.failed = {}
  /\ \A k \in SweepKeys : chunkRun.kvBefore[k] # Absent
  /\ chunkRun.kvBefore[MaxKeys].kind = "dated"
  /\ chunkRun.kvBefore[MaxKeys].age > TTL_PERIOD_DAYS

\* A sweep finished in which the first key threw and a later, expired key
\* was deleted all the same.
SweepWentOnAfterFailure ==
  /\ chunkRun.phase = "finished"
  /\ 1 \in chunkRun.failed
  /\ chunkRun.kvBefore[2].kind = "dated" /\ chunkRun.kv[2] = Absent
  /\ 2 \notin chunkRun.r2


\* ---- C39
\* In every state of the receiver a receive timer is armed exactly when a
\* descriptor is active, no two receive timers are armed together, and the
\* chunk list is empty whenever no descriptor is active.
ReceiveTimerIffDescriptor ==
  ReceiveTimers(timers) # {} <=> p2pReceivingFileMeta.set

AtMostOneReceiveTimer ==
  /\ Cardinality(ReceiveTimers(timers)) <= 1
  /\ ReceiveTimers(timers) \subseteq {p2pReceiveTimeoutIdRef}

NoDescriptorNoChunks ==
  ~p2pReceivingFileMeta.set => p2pReceivedFileChunks = <<>>

C39_ReceiverStateConsistent ==
  /\ ReceiveTimerIffDescriptor
  /\ AtMostOneReceiveTimer
  /\ NoDescriptorNoChunks

\* A descriptor is active and no receive timer is armed.
C39_Witness ==
  p2pReceivingFileMeta.set /\ ReceiveTimers(timers) = {}

\* A receive timer is armed and no descriptor is active.
TimerWithoutDescriptor ==
  ~p2pReceivingFileMeta.set /\ ReceiveTimers(timers) # {}


\* ---- C40
\* With a manual peer and a share-flow peer both connected, a frame that
\* arrives on one transport leaves alone the transfer whose file-meta arrived
\* on the other: the descriptor and the chunk list stay as they are and no
\* download starts.  The files of the two peers have different names, so the
\* name of the active descriptor tells the transport it arrived on.
BothLive ==
  /\ \E k \in ManualServiceIds : manualSvc[k].peer = "connected"
  /\ \E k \in ServiceIds : svc[k].peer = "connected"

ManualTransferActive ==
  p2pReceivingFileMeta.set /\ p2pReceivingFileMeta.name # ShareRxFile.name

ShareTransferActive ==
  p2pReceivingFileMeta.set /\ p2pReceivingFileMeta.name = ShareRxFile.name

OtherTransferUntouched ==
  /\ UNCHANGED <<p2pReceivingFileMeta, p2pReceivedFileChunks>>
  /\ ~downloaded'.saved

ShareFramesLeaveManualTransfer ==
  [][\A k \in ServiceIds, frame \in ShareRxFrames :
       (BothLive /\ ManualTransferActive /\ ShareOnData(k, frame))
         => OtherTransferUntouched]_vars

ManualFramesLeaveShareTransfer ==
  [][\A k \in ManualServiceIds, frame \in RxFrames \ {TextFrame} :
       (BothLive /\ ShareTransferActive /\ ManualOnData(k, frame))
         => OtherTransferUntouched]_vars

C40_TransportsKeepTransfersApart ==
  ShareFramesLeaveManualTransfer /\ ManualFramesLeaveShareTransfer

\* Both peers are connected and the active descriptor is the one a manual
\* peer's file-meta set.
C40_Witness == BothLive /\ ManualTransferActive

\* Both peers are connected and the active descriptor is the one the share
\* peer's file-meta set.
ShareTransferWhileBothLive == BothLive /\ ShareTransferActive

==============================================================================
